---- MODULE Spec2Model ----
(***************************************************************************)
(* A model of the single-threaded reactor of the RESP key-value server:    *)
(* the event loop (server/event_loop.rs), the per-connection state         *)
(* (server/client.rs), the control channel (server/event_loop_handle.rs),  *)
(* the command executor (commands/executor.rs) and the keyspace with its   *)
(* blocked-client index (storage/memory/*.rs).                             *)
(*                                                                         *)
(* Every handler of the loop is one action.  The commands a handler runs   *)
(* are folded over a record that holds the part of the state the executor  *)
(* can reach: the keyspace, the blocked-client index and the channel.      *)
(* Fields and variables whose name starts with g_ are history (ghost)      *)
(* data: they record which command produced a reply or a park record and   *)
(* never influence what the program does.                                  *)
(***************************************************************************)
EXTENDS Integers, Sequences, FiniteSets, TLC

VARIABLES
    clients,                 \* EventLoop.clients: Token -> Client
    next_token,              \* EventLoop.next_token
    storage,                 \* MemoryStorage.storage: key -> Unit
    blocked_clients,         \* MemoryStorage.blocked_clients: key -> Vec<BlockedClient>
    channel,                 \* the mpsc channel of EventLoopMessage
    blocked_clients_timeout, \* EventLoop.blocked_clients_timeout: Token -> Instant
    now,                     \* the clock (Instant::now(), in milliseconds)
    phase,                   \* the position of EventLoop::run in its loop body
    served,                  \* tokens whose event of this poll has been handled
    cfg,                     \* the input alphabet and bounds of the run
    panicked,                \* the reactor thread has panicked: the process is gone
    g_log,                   \* per token: every reply ever enqueued, in order
    g_recv,                  \* per token: every command received, in order
    g_parks,                 \* number of park requests made so far
    g_woken,                 \* the wakes delivered by the last drain of the channel
    wire,                    \* bytes a peer has sent that read(2) has not returned yet
    read_buffer,             \* Client.read_buffer of the connection fed from the wire
    expecting_rdb,           \* RespParser.expecting_rdb
    g_frames,                \* the frames the peer has put on the wire, in order
    g_parsed                 \* every command line parse_commands has returned

\* the part of the state the byte-level framing works on
byte_vars == <<wire, read_buffer, expecting_rdb, g_frames, g_parsed>>

vars == <<clients, next_token, storage, blocked_clients, channel,
          blocked_clients_timeout, now, phase, served, cfg, panicked,
          g_log, g_recv, g_parks, g_woken, byte_vars>>

-----------------------------------------------------------------------------
(* Bounds of the model.                                                    *)

MaxClients == 2   \* connections accepted in a run
MaxCmds == 5      \* commands received in a run, over all connections
MaxPushCmds == 3  \* the same, in the shorter runs of SpecPush and SpecIncr
MaxTimedCmds == 4 \* the same, in the runs of SpecTimed and SpecClose
MaxTime == 2      \* milliseconds the clock advances in a run
I64Max == 12      \* the model's i64::MAX: checked_add fails from here
U64Max == 3       \* the model's u64::MAX
MaxFrames == 2    \* frames a peer puts on the wire in the runs of SpecBytes

SERVER_TOKEN == 0
FirstToken == 1
BootMillis == 1   \* the wall clock at start, in milliseconds since the epoch

Keys == {"k", "a"}
NoExpiry == -1            \* Option<u128>::None
NoTimeout == -1           \* Option<Instant>::None

-----------------------------------------------------------------------------
(* Decimal text of integers: i64::to_string and str::parse::<i64>.         *)

Digit(d) == <<"0", "1", "2", "3", "4", "5", "6", "7", "8", "9">>[d + 1]

RECURSIVE NatToString(_)
NatToString(n) ==
    IF n < 10 THEN Digit(n) ELSE NatToString(n \div 10) \o Digit(n % 10)

to_string(i) == IF i < 0 THEN "-" \o NatToString(0 - i) ELSE NatToString(i)

ParseRange == (0 - I64Max - 1) .. I64Max
NotAnInteger == -99

\* parse::<i64>() of the strings the model stores: the inverse of to_string
ParseI64(s) ==
    IF \E i \in ParseRange : to_string(i) = s
    THEN CHOOSE i \in ParseRange : to_string(i) = s
    ELSE NotAnInteger

-----------------------------------------------------------------------------
(* RedisResponse and its wire form.                                        *)

Resp(t, n, s, a) == [t |-> t, n |-> n, s |-> s, a |-> a]
SimpleString(s) == Resp("SimpleString", 0, s, <<>>)
BulkString(s) == Resp("BulkString", 0, s, <<>>)
NullBulk == Resp("NullBulk", 0, "", <<>>)
Integer(n) == Resp("Integer", n, "", <<>>)
Array(a) == Resp("Array", 0, "", a)
Error(s) == Resp("Error", 0, s, <<>>)
Blocked == Resp("Blocked", 0, "", <<>>)
Empty == Resp("Empty", 0, "", <<>>)

ok == SimpleString("OK")
pong == SimpleString("PONG")
nil == NullBulk

CRLF == "\r\n"

RECURSIVE to_resp(_)
RECURSIVE to_resp_all(_)
to_resp_all(a) ==
    IF a = <<>> THEN "" ELSE to_resp(Head(a)) \o to_resp_all(Tail(a))

to_resp(r) ==
    CASE r.t = "SimpleString" -> "+" \o r.s \o CRLF
      [] r.t = "BulkString" -> "$" \o to_string(Len(r.s)) \o CRLF \o r.s \o CRLF
      [] r.t = "NullBulk" -> "$-1" \o CRLF
      [] r.t = "Integer" -> ":" \o to_string(r.n) \o CRLF
      [] r.t = "Array" -> "*" \o to_string(Len(r.a)) \o CRLF \o to_resp_all(r.a)
      [] r.t = "Error" -> "-ERR " \o r.s \o CRLF
      [] OTHER -> ""       \* Blocked, Empty: nothing goes on the wire

-----------------------------------------------------------------------------
(* Unit: a value of the keyspace with its optional expiry.                 *)

Unit(kind, s, l, z, x, expiry) ==
    [kind |-> kind, s |-> s, l |-> l, z |-> z, x |-> x, expiry |-> expiry]
NoUnit == Unit("none", "", <<>>, {}, <<>>, NoExpiry)   \* the key is not in the map
new_string(value, expiry) == Unit("string", value, <<>>, {}, <<>>, expiry)
new_list(value, expiry) == Unit("list", "", value, {}, <<>>, expiry)
new_zset(value, expiry) == Unit("zset", "", <<>>, value, <<>>, expiry)
new_stream(value, expiry) == Unit("stream", "", <<>>, {}, value, expiry)

is_list(u) == u.kind = "list"
is_string(u) == u.kind = "string"
is_zset(u) == u.kind = "zset"
is_stream(u) == u.kind = "stream"

\* Unit::is_expired
is_expired(u, t) == u.expiry # NoExpiry /\ t > u.expiry

\* Storage::exists
exists(st, key) == st.storage[key] # NoUnit

Put(st, key, u) == [st EXCEPT !.storage[key] = u]

-----------------------------------------------------------------------------
(* The control channel: EventLoopHandle sends, the reactor receives.       *)

Message(type, token, response, timeout, g_cmd, g_key, g_park) ==
    [type |-> type, token |-> token, response |-> response, timeout |-> timeout,
     g_cmd |-> g_cmd, g_key |-> g_key, g_park |-> g_park]

Send(st, m) == [st EXCEPT !.channel = Append(@, m)]

unblock_client(st, token, response, g_cmd, g_key, g_park) ==
    Send(st, Message("UnblockClient", token, response, 0, g_cmd, g_key, g_park))

block_client(st, token, timeout, g_cmd, g_park) ==
    Send(st, Message("BlockClient", token, Empty, timeout, g_cmd, "", g_park))

start_multi(st, token, g_cmd) ==
    Send(st, Message("StartMulti", token, Empty, 0, g_cmd, "", 0))

execute_queue(st, token, g_cmd) ==
    Send(st, Message("ExecuteQueue", token, Empty, 0, g_cmd, "", 0))

discard_queue(st, token, g_cmd) ==
    Send(st, Message("DiscardQueue", token, Empty, 0, g_cmd, "", 0))

-----------------------------------------------------------------------------
(* Lists and the blocked-client index.                                     *)

\* "let v = ...;" of the source: F applied to the value v
With(v, F(_)) == F(v)

Min(a, b) == IF a < b THEN a ELSE b
Max(a, b) == IF a > b THEN a ELSE b

RECURSIVE Reverse(_)
Reverse(s) == IF s = <<>> THEN <<>> ELSE Append(Reverse(Tail(s)), Head(s))


\* BlockedClient::new_list: blocked_type is List(left)
BlockedClient(token, timeout, left, g_cmd, g_park) ==
    [token |-> token, timeout |-> timeout, by_list |-> TRUE, left |-> left,
     last_id |-> [timestamp |-> 0, sequence |-> 0],
     g_cmd |-> g_cmd, g_park |-> g_park]

\* BlockedClient::new_stream: blocked_type is Stream(id)
BlockedOnStream(token, timeout, id, g_cmd, g_park) ==
    [token |-> token, timeout |-> timeout, by_list |-> FALSE, left |-> FALSE,
     last_id |-> id, g_cmd |-> g_cmd, g_park |-> g_park]

\* BlockedClient::is_timed_out
is_timed_out(bc, t) == bc.timeout # NoTimeout /\ t >= bc.timeout

\* a pop that takes the elements and leaves the list under its key even when
\* nothing is left in it
lpop_keeping_key(st, key, count) ==
    LET u == st.storage[key]
        n == Min(count, Len(u.l))
    IN  IF is_list(u)
        THEN [st |-> Put(st, key, [u EXCEPT !.l = SubSeq(u.l, n + 1, Len(u.l))]),
              some |-> TRUE, items |-> SubSeq(u.l, 1, n)]
        ELSE [st |-> st, some |-> FALSE, items |-> <<>>]

\* StorageList::lpop: [st, some, items]
lpop(st, key, count) ==
    LET u == st.storage[key] IN
    IF is_list(u)
    THEN IF u.l = <<>>
         THEN [st |-> st, some |-> TRUE, items |-> <<>>]
         ELSE LET n == Min(count, Len(u.l))
                  rest == SubSeq(u.l, n + 1, Len(u.l))
              IN [st |-> IF rest = <<>> THEN Put(st, key, NoUnit)
                                        ELSE Put(st, key, [u EXCEPT !.l = rest]),
                  some |-> TRUE,
                  items |-> SubSeq(u.l, 1, n)]
    ELSE [st |-> st, some |-> FALSE, items |-> <<>>]

\* MemoryStorage::response_blocked_on_list: [st, some, response]
response_blocked_on_list(st, bc, key) ==
    IF ~bc.by_list THEN [st |-> st, some |-> FALSE, response |-> Empty]
    ELSE IF bc.left
    THEN With(lpop(st, key, 1), LAMBDA p :
         IF p.some /\ p.items # <<>>
         THEN [st |-> p.st, some |-> TRUE,
               response |-> Array(<<BulkString(key), BulkString(p.items[1])>>)]
         ELSE [st |-> p.st, some |-> FALSE, response |-> Empty])
    ELSE LET u == st.storage[key] IN
         IF is_list(u) /\ u.l # <<>>
         THEN LET rest == SubSeq(u.l, 1, Len(u.l) - 1) IN
              [st |-> IF rest = <<>> THEN Put(st, key, NoUnit)
                                     ELSE Put(st, key, [u EXCEPT !.l = rest]),
               some |-> TRUE,
               response |-> Array(<<BulkString(key), BulkString(u.l[Len(u.l)])>>)]
         ELSE [st |-> st, some |-> FALSE, response |-> Empty]

\* MemoryStorage::reblock_remaining_clients
reblock_remaining_clients(st, key, all_clients, satisfied_token) ==
    LET Keep(bc) == bc.token # satisfied_token IN
    [st EXCEPT !.blocked_clients[key] = SelectSeq(all_clients, Keep)]

\* the for loop of unblock_clients_for_key, from its i-th record on; the
\* index entry of the key has been taken out before the loop starts
RECURSIVE UnblockFrom(_, _, _, _)
UnblockFrom(st, key, all, i) ==
    IF i > Len(all) THEN st
    ELSE LET bc == all[i] IN
         IF is_timed_out(bc, st.now) THEN UnblockFrom(st, key, all, i + 1)
         ELSE With(response_blocked_on_list(st, bc, key), LAMBDA r :
              IF ~r.some THEN UnblockFrom(r.st, key, all, i + 1)
              ELSE With(unblock_client(r.st, bc.token, r.response,
                                       bc.g_cmd, key, bc.g_park), LAMBDA sent :
                   IF is_list(sent.storage[key]) /\ sent.storage[key].l # <<>>
                   THEN UnblockFrom(sent, key, all, i + 1)
                   ELSE reblock_remaining_clients(sent, key, all, bc.token)))

\* MemoryStorage::unblock_clients_for_key (blocked_on_list = true)
unblock_clients_for_key(st, key) ==
    LET all == st.blocked_clients[key] IN
    IF all = <<>> THEN st
    ELSE UnblockFrom([st EXCEPT !.blocked_clients[key] = <<>>], key, all, 1)

\* the keyspace right after rpush has added the values, before any wake
\* (as_string().unwrap() panics on a value that is neither list nor string)
rpush_store(st, key, value) ==
    IF exists(st, key)
    THEN LET u == st.storage[key]
             base == IF is_list(u) THEN u.l ELSE <<u.s>>
         IN IF ~is_list(u) /\ ~is_string(u)
            THEN [Put(st, key, NoUnit) EXCEPT !.panicked = TRUE]
            ELSE Put(st, key, new_list(base \o value,
                                       IF is_list(u) THEN u.expiry ELSE NoExpiry))
    ELSE Put(st, key, new_list(value, NoExpiry))

\* the length of the list once the parked connections have been served
length_after_wake(stored, woken, key) ==
    IF is_list(woken.storage[key]) THEN Len(woken.storage[key].l) ELSE 0

\* the length rpush and lpush return
pushed_length(stored, woken, key) == Len(stored.storage[key].l)

\* StorageList::rpush: [st, length]
rpush(st, key, value) ==
    With(rpush_store(st, key, value), LAMBDA stored :
    IF stored.panicked THEN [st |-> stored, length |-> 0]
    ELSE With(unblock_clients_for_key(stored, key), LAMBDA woken :
         [st |-> woken, length |-> pushed_length(stored, woken, key)]))

\* the keyspace right after lpush has added the values, before any wake
lpush_store(st, key, value) ==
    IF exists(st, key)
    THEN LET u == st.storage[key]
             base == IF is_list(u) THEN u.l ELSE <<u.s>>
         IN IF ~is_list(u) /\ ~is_string(u)
            THEN [Put(st, key, NoUnit) EXCEPT !.panicked = TRUE]
            ELSE Put(st, key, new_list(Reverse(value) \o base,
                                       IF is_list(u) THEN u.expiry ELSE NoExpiry))
    ELSE Put(st, key, new_list(value, NoExpiry))

\* StorageList::lpush: [st, length]
lpush(st, key, value) ==
    With(lpush_store(st, key, value), LAMBDA stored :
    IF stored.panicked THEN [st |-> stored, length |-> 0]
    ELSE With(unblock_clients_for_key(stored, key), LAMBDA woken :
         [st |-> woken, length |-> pushed_length(stored, woken, key)]))

\* MemoryStorage::get_type
get_type(st, key) ==
    LET u == st.storage[key] IN
    IF u = NoUnit \/ is_expired(u, st.now) THEN "none"
    ELSE IF is_string(u) THEN "string"
    ELSE IF is_list(u) THEN "list"
    ELSE IF is_zset(u) THEN "zset"
    ELSE IF is_stream(u) THEN "stream"
    ELSE "unknown"

\* StorageList::llen
llen(st, key) == IF is_list(st.storage[key]) THEN Len(st.storage[key].l) ELSE 0

\* the first key of a blocking pop that holds a non-empty list, or 0
RECURSIVE FirstReady(_, _, _)
FirstReady(st, keys, i) ==
    IF i > Len(keys) THEN 0
    ELSE IF is_list(st.storage[keys[i]]) /\ st.storage[keys[i]].l # <<>>
         THEN i
         ELSE FirstReady(st, keys, i + 1)

\* the park records of a blocking pop, one per key argument in order
RECURSIVE ParkOn(_, _, _, _)
ParkOn(st, keys, i, bc) ==
    IF i > Len(keys) THEN st
    ELSE ParkOn([st EXCEPT !.blocked_clients[keys[i]] = Append(@, bc)], keys, i + 1, bc)

\* StorageList::blpop (left) and ::brpop (right): [st, some, pair]
bpop(st, keys, token, timeout, left, g_cmd) ==
    With(FirstReady(st, keys, 1), LAMBDA i :
    IF i # 0
    THEN LET key == keys[i]
             u == st.storage[key]
             item == IF left THEN u.l[1] ELSE u.l[Len(u.l)]
             rest == IF left THEN Tail(u.l) ELSE SubSeq(u.l, 1, Len(u.l) - 1)
         IN [st |-> IF rest = <<>> THEN Put(st, key, NoUnit)
                                   ELSE Put(st, key, [u EXCEPT !.l = rest]),
             some |-> TRUE, pair |-> <<key, item>>]
    ELSE LET park == st.g_parks + 1
             bc == BlockedClient(token,
                                 IF timeout # 0 THEN st.now + timeout ELSE NoTimeout,
                                 left, g_cmd, park)
             parked == ParkOn([st EXCEPT !.g_parks = park], keys, 1, bc)
         IN [st |-> block_client(parked, token, timeout, g_cmd, park),
             some |-> FALSE, pair |-> <<>>])

blpop(st, keys, token, timeout, g_cmd) == bpop(st, keys, token, timeout, TRUE, g_cmd)
brpop(st, keys, token, timeout, g_cmd) == bpop(st, keys, token, timeout, FALSE, g_cmd)

\* StorageList::lrange: [some, items]
lrange(st, key, start, end) ==
    LET u == st.storage[key] IN
    IF ~is_list(u) THEN [some |-> FALSE, items |-> <<>>]
    ELSE LET len == Len(u.l)
             s0 == Max(IF start < 0 THEN len + start ELSE start, 0)
             e0 == Max(IF end < 0 THEN len + end ELSE end, 0)
         IN IF s0 > e0 \/ s0 >= len
            THEN [some |-> TRUE, items |-> <<>>]
            ELSE [some |-> TRUE,
                  items |-> SubSeq(u.l, s0 + 1, (IF e0 >= len THEN len - 1 ELSE e0) + 1)]

-----------------------------------------------------------------------------
(* Strings: Storage::get, ::set, ::incr.                                   *)

\* Storage::get: [st, some, value]
get(st, key) ==
    LET u == st.storage[key] IN
    IF u = NoUnit THEN [st |-> st, some |-> FALSE, value |-> ""]
    ELSE IF is_expired(u, st.now) \/ ~is_string(u)
         THEN [st |-> Put(st, key, NoUnit), some |-> FALSE, value |-> ""]
         ELSE [st |-> st, some |-> TRUE, value |-> u.s]

\* Storage::set
set(st, key, value) == Put(st, key, new_string(value, NoExpiry))

\* Storage::set_with_expiry: expiry is a duration in milliseconds
set_with_expiry(st, key, value, expiry) ==
    Put(st, key, new_string(value, expiry + st.now))

\* Storage::exists_multiple
exists_multiple(st, keys) == Cardinality({i \in 1 .. Len(keys) : exists(st, keys[i])})

\* an increment that wraps around at the largest integer instead of failing
incr_wrapping(st, key) ==
    LET u == st.storage[key]
        num == IF u = NoUnit \/ ParseI64(u.s) = NotAnInteger THEN 0 ELSE ParseI64(u.s)
        sum == IF num >= I64Max THEN 0 - I64Max - 1 ELSE num + 1
    IN  IF is_string(u) /\ ParseI64(u.s) = NotAnInteger
        THEN [st |-> st, some |-> FALSE, value |-> 0]
        ELSE [st |-> Put(st, key, new_string(to_string(sum), NoExpiry)),
              some |-> TRUE, value |-> sum]

\* Storage::incr: [st, some, value]
incr(st, key) ==
    LET u == st.storage[key] IN
    IF u = NoUnit
    THEN [st |-> Put(st, key, new_string("1", NoExpiry)), some |-> TRUE, value |-> 1]
    ELSE IF ~is_string(u) THEN [st |-> st, some |-> FALSE, value |-> 0]
    ELSE IF is_expired(u, st.now)
         THEN [st |-> Put(st, key, new_string("1", NoExpiry)), some |-> TRUE, value |-> 1]
    ELSE LET num == ParseI64(u.s) IN
         IF num = NotAnInteger \/ num >= I64Max
         THEN [st |-> st, some |-> FALSE, value |-> 0]
         ELSE [st |-> Put(st, key, new_string(to_string(num + 1), u.expiry)),
               some |-> TRUE, value |-> num + 1]

-----------------------------------------------------------------------------
(* Sorted sets: StorageZSet::zadd.                                         *)

ZSetMember(score, member) == [score |-> score, member |-> member]

\* the score f64::NAN: it sorts below every other score
NaN == -96

\* parse::<f64>() of a score: the integers of the runs and "nan"
ParseF64(s) == IF s = "nan" THEN NaN ELSE ParseI64(s)

\* Ord for ZSetMember gives Equal: the same member with the same score, or
\* two members whose scores are both NaN
MemberEqual(m, n) == m = n \/ (m.score = NaN /\ n.score = NaN)

\* BTreeSet::insert: a value that compares Equal to one of the set is not
\* inserted
Insert(z, m) == IF \E n \in z : MemberEqual(n, m) THEN z ELSE z \cup {m}

\* a zadd that inserts the new entry without removing the member's old one
zadd_keeping_old(st, key, score, member) ==
    LET u == st.storage[key]
        fresh == new_zset({ZSetMember(score, member)}, NoExpiry)
        others == {m \in u.z : m.member # member}
    IN  IF u = NoUnit THEN [st |-> Put(st, key, fresh), added |-> 1]
        ELSE IF is_expired(u, st.now) \/ ~is_zset(u)
             THEN [st |-> Put(st, key, fresh), added |-> 1]
        ELSE [st |-> Put(st, key, [u EXCEPT !.z = Insert(u.z, ZSetMember(score, member))]),
              added |-> IF others = u.z THEN 1 ELSE 0]

\* StorageZSet::zadd: [st, added]
zadd(st, key, score, member) ==
    LET u == st.storage[key]
        fresh == new_zset({ZSetMember(score, member)}, NoExpiry)
        others == {m \in u.z : m.member # member}
    IN  IF u = NoUnit THEN [st |-> Put(st, key, fresh), added |-> 1]
        ELSE IF is_expired(u, st.now) \/ ~is_zset(u)
             THEN [st |-> Put(st, key, fresh), added |-> 1]
        ELSE [st |-> Put(st, key, [u EXCEPT !.z = Insert(others, ZSetMember(score, member))]),
              added |-> IF others = u.z THEN 1 ELSE 0]

\* StorageZSet::zcard
zcard(st, key) ==
    LET u == st.storage[key]
    IN  IF u = NoUnit \/ is_expired(u, st.now) \/ ~is_zset(u) THEN 0
        ELSE Cardinality(u.z)

\* StorageZSet::zrem: [st, removed]
zrem(st, key, member) ==
    LET u == st.storage[key]
        others == {m \in u.z : m.member # member}
    IN  IF u = NoUnit THEN [st |-> st, removed |-> FALSE]
        ELSE IF is_expired(u, st.now) \/ ~is_zset(u)
             THEN [st |-> Put(st, key, NoUnit), removed |-> FALSE]
        ELSE [st |-> Put(st, key, [u EXCEPT !.z = others]),
              removed |-> others # u.z]

\* the member names of the runs in the order of String::cmp
MemberNames == <<"a", "b", "c">>

\* the place of a member name in that order
NameRank(member) == CHOOSE i \in 1 .. Len(MemberNames) : MemberNames[i] = member

\* Ord for ZSetMember: by score, members of the same score by name
MemberLess(m, n) ==
    \/ m.score < n.score
    \/ m.score = n.score /\ m.score # NaN /\ NameRank(m.member) < NameRank(n.member)

\* BTreeSet::iter: the members of the set in ascending order
RECURSIVE Ascending(_)
Ascending(z) ==
    IF z = {} THEN <<>>
    ELSE LET least == CHOOSE m \in z : \A n \in z \ {m} : MemberLess(m, n)
         IN  <<least>> \o Ascending(z \ {least})

\* a range that clamps the start to the last position instead of returning
\* nothing for a start beyond the end of the set
zrange_clamping_start(st, key, start, end) ==
    LET u == st.storage[key]
        len == Cardinality(u.z)
        s0 == Min(Max(IF start < 0 THEN len + start ELSE start, 0), len - 1)
        e0 == Min(Max(IF end < 0 THEN len + end ELSE end, 0), len - 1)
    IN  IF u = NoUnit \/ is_expired(u, st.now) \/ ~is_zset(u)
        THEN [some |-> FALSE, items |-> <<>>]
        ELSE IF s0 > e0 \/ len = 0 THEN [some |-> TRUE, items |-> <<>>]
        ELSE [some |-> TRUE,
              items |-> [i \in 1 .. e0 - s0 + 1 |-> Ascending(u.z)[s0 + i].member]]

\* StorageZSet::zrange: [some, items]
zrange(st, key, start, end) ==
    LET u == st.storage[key]
        len == Cardinality(u.z)
        s0 == Max(IF start < 0 THEN len + start ELSE start, 0)
        e0 == Max(IF end < 0 THEN len + end ELSE end, 0)
    IN  IF u = NoUnit \/ is_expired(u, st.now) \/ ~is_zset(u)
        THEN [some |-> FALSE, items |-> <<>>]
        ELSE IF s0 > e0 \/ s0 >= len THEN [some |-> TRUE, items |-> <<>>]
        ELSE [some |-> TRUE,
              items |-> [i \in 1 .. Min(e0, len - 1) - s0 + 1 |->
                            Ascending(u.z)[s0 + i].member]]

-----------------------------------------------------------------------------
(* Streams: StreamId, StorageStream::xadd and ::xrange.                    *)

StreamId(timestamp, sequence) == [timestamp |-> timestamp, sequence |-> sequence]
EMPTY_STREAM_ID == StreamId(0, 0)

\* the derived Ord of StreamId: by timestamp, then by sequence
IdLess(a, b) ==
    \/ a.timestamp < b.timestamp
    \/ a.timestamp = b.timestamp /\ a.sequence < b.sequence
IdLeq(a, b) == a = b \/ IdLess(a, b)

\* StreamId::to_string
IdText(id) == to_string(id.timestamp) \o "-" \o to_string(id.sequence)

StreamMember(id, fields) == [id |-> id, fields |-> fields]

\* the decimal texts of the u64 values
U64Texts == {to_string(i) : i \in 0 .. U64Max}

\* the texts on either side of the '-' of an id argument
IdParts == U64Texts \cup {"*", "x"}

\* str::contains("-")
HasDash(input) == \E a, b \in IdParts : input = a \o "-" \o b

\* str::split_once('-').unwrap_or(("0", "0"))
split_once(input) ==
    IF HasDash(input)
    THEN CHOOSE pair \in IdParts \X IdParts : input = pair[1] \o "-" \o pair[2]
    ELSE <<"0", "0">>

\* str::parse::<u64>().unwrap_or(0)
ParseU64Or0(s) ==
    IF s \in U64Texts THEN CHOOSE i \in 0 .. U64Max : to_string(i) = s ELSE 0

\* SystemTime::now() in milliseconds since the epoch
UnixMillis(st) == BootMillis + st.now

\* "last_id.sequence + 1" on u64: with overflow checks the addition panics
\* at the largest value, without them it wraps around to 0
NextSequence(st, sequence) ==
    IF sequence < U64Max THEN [panic |-> FALSE, value |-> sequence + 1]
    ELSE [panic |-> st.overflow_checks, value |-> 0]

\* generate_next_id: [panic, id]
generate_next_id(st, last_id, input) ==
    IF input = "*" THEN [panic |-> FALSE, id |-> StreamId(UnixMillis(st), 0)]
    ELSE LET first == split_once(input)[1]
             last == split_once(input)[2]
         IN IF last = "*"
            THEN IF ParseU64Or0(first) = last_id.timestamp
                 THEN [panic |-> NextSequence(st, last_id.sequence).panic,
                       id |-> StreamId(ParseU64Or0(first),
                                       NextSequence(st, last_id.sequence).value)]
                 ELSE [panic |-> FALSE, id |-> StreamId(ParseU64Or0(first), 0)]
            ELSE [panic |-> FALSE, id |-> StreamId(ParseU64Or0(first), ParseU64Or0(last))]

\* the id of the last entry of a stream, or 0-0
TopId(stream) == IF stream = <<>> THEN EMPTY_STREAM_ID ELSE stream[Len(stream)].id

GreaterThanZero == "The ID specified in XADD must be greater than 0-0"
GreaterThanTop ==
    "The ID specified in XADD is equal or smaller than the target stream top item"
NotAStream == "Key does not exist or is not a stream"

XaddOk(st, id) == [st |-> st, okay |-> TRUE, text |-> IdText(id)]
XaddErr(st, err) == [st |-> st, okay |-> FALSE, text |-> err]

\* StorageStream::xadd: [st, okay, text]
xadd(st, key, id, fields) ==
    LET u == st.storage[key] IN
    IF u = NoUnit
    THEN With(generate_next_id(st, EMPTY_STREAM_ID, id), LAMBDA g :
         IF g.panic THEN XaddErr([st EXCEPT !.panicked = TRUE], "")
         ELSE IF IdLeq(g.id, EMPTY_STREAM_ID) THEN XaddErr(st, GreaterThanZero)
         ELSE XaddOk(Put(st, key, new_stream(<<StreamMember(g.id, fields)>>, NoExpiry)),
                     g.id))
    ELSE IF is_expired(u, st.now) \/ ~is_stream(u) THEN XaddErr(st, NotAStream)
    ELSE With(generate_next_id(st, TopId(u.x), id), LAMBDA g :
         IF g.panic THEN XaddErr([st EXCEPT !.panicked = TRUE], "")
         ELSE IF IdLeq(g.id, TopId(u.x))
              THEN IF g.id = EMPTY_STREAM_ID THEN XaddErr(st, GreaterThanZero)
                   ELSE XaddErr(st, GreaterThanTop)
         ELSE XaddOk(Put(st, key, [u EXCEPT !.x = Append(@, StreamMember(g.id, fields))]),
                     g.id))

\* generate_query_id
generate_query_id(input) ==
    IF input = "-" THEN StreamId(0, 0)
    ELSE IF input = "+" THEN StreamId(U64Max, U64Max)
    ELSE IF ~HasDash(input) THEN StreamId(ParseU64Or0(input), 0)
    ELSE StreamId(ParseU64Or0(split_once(input)[1]), ParseU64Or0(split_once(input)[2]))

\* the entries of a stream whose id lies between two ids, in stored order
RECURSIVE Between(_, _, _)
Between(stream, start_id, end_id) ==
    IF stream = <<>> THEN <<>>
    ELSE IF IdLeq(start_id, Head(stream).id) /\ IdLeq(Head(stream).id, end_id)
         THEN <<Head(stream)>> \o Between(Tail(stream), start_id, end_id)
         ELSE Between(Tail(stream), start_id, end_id)

\* StorageStream::xrange: [some, entries]
xrange(st, key, start, end) ==
    LET u == st.storage[key] IN
    IF u = NoUnit \/ is_expired(u, st.now) \/ ~is_stream(u)
    THEN [some |-> FALSE, entries |-> <<>>]
    ELSE [some |-> TRUE,
          entries |-> Between(u.x, generate_query_id(start), generate_query_id(end))]

\* the id argument of XREAD, written ms-seq
ReadId(text) ==
    With(split_once(text), LAMBDA parts :
    StreamId(ParseU64Or0(parts[1]), ParseU64Or0(parts[2])))

\* the entries of a stream whose id is strictly greater than id
After(stream, id) == SelectSeq(stream, LAMBDA member : IdLess(id, member.id))

\* for each (key, id) pair of XREAD the entries after id, leaving out the
\* keys that have none
RECURSIVE ReadFrom(_, _, _)
ReadFrom(st, streams, i) ==
    IF i > Len(streams) THEN <<>>
    ELSE LET key == streams[i][1]
             u == st.storage[key]
             entries == IF is_stream(u) THEN After(u.x, ReadId(streams[i][2])) ELSE <<>>
         IN (IF entries = <<>> THEN <<>> ELSE << <<key, entries>> >>)
                \o ReadFrom(st, streams, i + 1)

\* the park records of XREAD BLOCK, one per (key, id) pair with its last id
RECURSIVE ParkOnStreams(_, _, _, _, _, _, _)
ParkOnStreams(st, streams, i, token, timeout, g_cmd, park) ==
    IF i > Len(streams) THEN st
    ELSE ParkOnStreams(
             [st EXCEPT !.blocked_clients[streams[i][1]] =
                 Append(@, BlockedOnStream(token, timeout, ReadId(streams[i][2]),
                                           g_cmd, park))],
             streams, i + 1, token, timeout, g_cmd, park)

\* StorageStream::xread; block is <<>> or <<milliseconds>>: [st, some, results]
xread(st, token, block, streams, g_cmd) ==
    With(ReadFrom(st, streams, 1), LAMBDA results :
    IF results # <<>> \/ block = <<>>
    THEN [st |-> st, some |-> TRUE, results |-> results]
    ELSE LET park == st.g_parks + 1
             timeout == IF block[1] # 0 THEN st.now + block[1] ELSE NoTimeout
             parked == ParkOnStreams([st EXCEPT !.g_parks = park], streams, 1,
                                     token, timeout, g_cmd, park)
         IN [st |-> block_client(parked, token, block[1], g_cmd, park),
             some |-> FALSE, results |-> <<>>])

-----------------------------------------------------------------------------
(* RespParser: framing of the bytes of a connection into command lines.    *)
(* A buffer is a sequence of bytes, each written as a one-character string.*)

Take(buffer, n) == SubSeq(buffer, 1, n)
Drop(buffer, n) == SubSeq(buffer, n + 1, Len(buffer))

\* String::from_utf8_lossy of a slice of the buffer
RECURSIVE Utf8(_)
Utf8(bytes) == IF bytes = <<>> THEN "" ELSE Head(bytes) \o Utf8(Tail(bytes))

NoFrame == [some |-> FALSE, args |-> <<>>, consumed |-> 0, number |-> 0]
Frame(args, consumed) == [some |-> TRUE, args |-> args, consumed |-> consumed, number |-> 0]

\* the loops "while pos + 1 < buffer.len()" that look for \r\n: the offset of
\* the first \r\n at or after offset pos, or -1
RECURSIVE FindCrlf(_, _)
FindCrlf(buffer, pos) ==
    IF pos + 1 >= Len(buffer) THEN -1
    ELSE IF buffer[pos + 1] = "\r" /\ buffer[pos + 2] = "\n" THEN pos
    ELSE FindCrlf(buffer, pos + 1)

\* RespParser::parse_integer_from_buffer: [some, number, consumed]
parse_integer_from_buffer(buffer) ==
    With(FindCrlf(buffer, 0), LAMBDA pos :
    IF pos < 0 \/ ParseI64(Utf8(Take(buffer, pos))) = NotAnInteger THEN NoFrame
    ELSE [some |-> TRUE, args |-> <<>>, consumed |-> pos + 2,
          number |-> ParseI64(Utf8(Take(buffer, pos)))])

\* RespParser::parse_bulk_string_value; args is empty for the null bulk string
parse_bulk_string_value(buffer) ==
    With(parse_integer_from_buffer(Drop(buffer, 1)), LAMBDA n :
    LET pos == 1 + n.consumed
        end == pos + n.number
    IN  IF ~n.some THEN NoFrame
        ELSE IF n.number < 0 THEN Frame(<<>>, pos)
        ELSE IF end + 2 > Len(buffer) THEN NoFrame
        ELSE IF end + 1 < Len(buffer) /\ buffer[end + 1] = "\r" /\ buffer[end + 2] = "\n"
             THEN Frame(<<Utf8(SubSeq(buffer, pos + 1, end))>>, end + 2)
             ELSE NoFrame)

\* RespParser::parse_simple_string_value
parse_simple_string_value(buffer) ==
    With(FindCrlf(buffer, 1), LAMBDA pos :
    IF pos < 0 THEN NoFrame
    ELSE Frame(<<Utf8(SubSeq(buffer, 2, pos))>>, pos + 2))

\* the for loop of parse_array with "remaining" elements still to read
RECURSIVE ArrayElements(_, _, _, _)
ArrayElements(buffer, pos, remaining, elements) ==
    IF remaining = 0 THEN Frame(elements, pos)
    ELSE IF pos >= Len(buffer) THEN NoFrame
    ELSE With(CASE buffer[pos + 1] = "$" -> parse_bulk_string_value(Drop(buffer, pos))
                [] buffer[pos + 1] = "+" -> parse_simple_string_value(Drop(buffer, pos))
                [] buffer[pos + 1] = ":" ->
                     With(parse_integer_from_buffer(Drop(buffer, pos + 1)), LAMBDA n :
                     IF n.some THEN Frame(<<to_string(n.number)>>, 1 + n.consumed)
                     ELSE NoFrame)
                [] OTHER -> NoFrame, LAMBDA e :
         IF ~e.some THEN NoFrame
         ELSE ArrayElements(buffer, pos + e.consumed, remaining - 1, elements \o e.args))

\* RespParser::parse_array
parse_array(buffer) ==
    With(parse_integer_from_buffer(Drop(buffer, 1)), LAMBDA n :
    IF ~n.some THEN NoFrame
    ELSE IF n.number < 0 THEN Frame(<<>>, 1 + n.consumed)
    ELSE ArrayElements(buffer, 1 + n.consumed, n.number, <<>>))

\* the offset of the first \n, or \r followed by \n, of an inline command
RECURSIVE FindLineEnd(_, _)
FindLineEnd(buffer, pos) ==
    IF pos >= Len(buffer) THEN -1
    ELSE IF \/ buffer[pos + 1] = "\n"
            \/ pos + 1 < Len(buffer) /\ buffer[pos + 1] = "\r" /\ buffer[pos + 2] = "\n"
         THEN pos
         ELSE FindLineEnd(buffer, pos + 1)

\* str::split_whitespace of the bytes of a line
RECURSIVE SplitWhitespace(_, _, _)
SplitWhitespace(line, word, words) ==
    IF line = <<>> THEN IF word = "" THEN words ELSE Append(words, word)
    ELSE IF Head(line) \in {" ", "\r", "\n", "\t"}
         THEN SplitWhitespace(Tail(line), "", IF word = "" THEN words ELSE Append(words, word))
         ELSE SplitWhitespace(Tail(line), word \o Head(line), words)

\* RespParser::parse_inline_command
parse_inline_command(buffer) ==
    With(FindLineEnd(buffer, 0), LAMBDA pos :
    IF pos < 0 THEN NoFrame
    ELSE Frame(SplitWhitespace(Take(buffer, pos), "", <<>>),
               IF buffer[pos + 1] = "\n" THEN pos + 1 ELSE pos + 2))

\* RespParser::parse_single_command
parse_single_command(buffer) ==
    IF buffer = <<>> THEN NoFrame
    ELSE CASE buffer[1] = "*" -> parse_array(buffer)
           [] buffer[1] = "+" -> parse_simple_string_value(buffer)
           [] buffer[1] = ":" ->
                With(parse_integer_from_buffer(Drop(buffer, 1)), LAMBDA n :
                IF n.some THEN Frame(<<to_string(n.number)>>, 1 + n.consumed) ELSE NoFrame)
           [] buffer[1] = "$" -> parse_bulk_string_value(buffer)
           [] buffer[1] = "-" ->
                With(FindCrlf(buffer, 1), LAMBDA pos :
                IF pos < 0 THEN NoFrame
                ELSE Frame(<<"ERROR", Utf8(SubSeq(buffer, 2, pos))>>, pos + 2))
           [] OTHER -> parse_inline_command(buffer)

\* RespParser::try_parse_rdb_data: args holds the number of bytes of the data
try_parse_rdb_data(buffer) ==
    IF buffer = <<>> \/ buffer[1] # "$" THEN NoFrame
    ELSE With(parse_integer_from_buffer(Drop(buffer, 1)), LAMBDA n :
         IF ~n.some THEN NoFrame
         ELSE IF n.number < 0 THEN Frame(<<0>>, 1 + n.consumed)
         ELSE IF 1 + n.consumed + n.number > Len(buffer) THEN NoFrame
         ELSE Frame(<<n.number>>, 1 + n.consumed + n.number))

\* the while loop of parse_commands from offset pos on
RECURSIVE ParseFrom(_, _, _, _)
ParseFrom(buffer, pos, commands, expecting) ==
    IF pos >= Len(buffer)
    THEN [commands |-> commands, pos |-> pos, expecting_rdb |-> expecting]
    ELSE With(parse_single_command(Drop(buffer, pos)), LAMBDA f :
         IF ~f.some
         THEN [commands |-> commands, pos |-> pos, expecting_rdb |-> expecting]
         ELSE ParseFrom(buffer, pos + f.consumed, Append(commands, f.args),
                        expecting \/ (f.args # <<>> /\ f.args[1] = "FULLRESYNC")))

\* RespParser::parse_commands: [commands, pos, expecting_rdb]
parse_commands(expecting, buffer) ==
    IF expecting
    THEN With(try_parse_rdb_data(buffer), LAMBDA rdb :
         IF rdb.some
         THEN ParseFrom(buffer, rdb.consumed,
                        << <<"__RDB_DATA__", "(" \o to_string(rdb.args[1]) \o " bytes)">> >>,
                        FALSE)
         ELSE [commands |-> <<>>, pos |-> 0, expecting_rdb |-> TRUE])
    ELSE ParseFrom(buffer, 0, <<>>, FALSE)

-----------------------------------------------------------------------------
(* RedisCommand and CommandParser::parse.                                  *)

Cmd(op, key, keys, vals, n, m) ==
    [op |-> op, key |-> key, keys |-> keys, vals |-> vals, n |-> n, m |-> m]
NoCount == -97          \* Option<i64>::None of LPOP
InvalidNumber == -98

\* parse::<f64>() of a timeout, then (timeout * 1000.0) as u64
TimeoutMillis(s) ==
    CASE s = "0" -> 0
      [] s = "0.001" -> 1
      [] s = "0.002" -> 2
      [] OTHER -> InvalidNumber

\* parse::<u128>() of an expiry
ParseU128(s) ==
    IF ParseI64(s) = NotAnInteger \/ ParseI64(s) < 0 THEN InvalidNumber ELSE ParseI64(s)

\* "count as usize" of an i64: a negative count wraps around
as_usize(n) == IF n < 0 THEN n + 2 * (I64Max + 1) ELSE n

Parsed(cmd) == [okay |-> TRUE, cmd |-> cmd, err |-> ""]
Rejected(err) == [okay |-> FALSE, cmd |-> Cmd("", "", <<>>, <<>>, 0, 0), err |-> err]
WrongArity(name) == Rejected("Wrong number of arguments for " \o name)

\* CommandParser::parse_xread from the STREAMS keyword at args[idx] on
StreamsOf(args, idx, block) ==
    LET n == Len(args)
        pairs == (n - idx) \div 2
    IN  IF args[idx] # "STREAMS" THEN Rejected("Expected 'STREAMS' keyword in XREAD")
        ELSE IF (n - idx) % 2 # 0
             THEN Rejected("Wrong number of arguments for XREAD key-id pairs")
             ELSE Parsed(Cmd("XREAD", "",
                             [i \in 1 .. pairs |-> <<args[idx + i], args[idx + pairs + i]>>],
                             block, 0, 0))

\* CommandParser::parse; args[1] and the EX/PX of SET are given in upper case
parse(args) ==
    LET n == Len(args)
        c == args[1]
    IN CASE c = "PING" ->
              IF n = 1 THEN Parsed(Cmd("PING", "", <<>>, <<>>, 0, 0))
              ELSE IF n = 2 THEN Parsed(Cmd("PING", "", <<>>, <<args[2]>>, 0, 0))
              ELSE WrongArity(c)
         [] c = "GET" ->
              IF n # 2 THEN WrongArity(c) ELSE Parsed(Cmd("GET", args[2], <<>>, <<>>, 0, 0))
         [] c = "SET" ->
              IF n = 3 THEN Parsed(Cmd("SET", args[2], <<>>, <<args[3]>>, 0, 0))
              ELSE IF n # 5 THEN WrongArity(c)
              ELSE IF args[4] \notin {"EX", "PX"} THEN Rejected("Invalid SET command format")
              ELSE IF ParseU128(args[5]) = InvalidNumber THEN Rejected("Invalid expiry value")
              ELSE Parsed(Cmd("SetWithExpiry", args[2], <<>>, <<args[3]>>,
                              IF args[4] = "EX" THEN ParseU128(args[5]) * 1000
                              ELSE ParseU128(args[5]), 0))
         [] c = "EXISTS" ->
              IF n < 2 THEN WrongArity(c)
              ELSE Parsed(Cmd("EXISTS", "", SubSeq(args, 2, n), <<>>, 0, 0))
         [] c = "INCR" ->
              IF n # 2 THEN WrongArity(c) ELSE Parsed(Cmd("INCR", args[2], <<>>, <<>>, 0, 0))
         [] c \in {"RPUSH", "LPUSH"} ->
              IF n < 3 THEN WrongArity(c)
              ELSE Parsed(Cmd(c, args[2], <<>>, SubSeq(args, 3, n), 0, 0))
         [] c = "LLEN" ->
              IF n # 2 THEN WrongArity(c) ELSE Parsed(Cmd("LLEN", args[2], <<>>, <<>>, 0, 0))
         [] c = "LRANGE" ->
              IF n # 4 THEN WrongArity(c)
              ELSE IF ParseI64(args[3]) = NotAnInteger THEN Rejected("Invalid start index")
              ELSE IF ParseI64(args[4]) = NotAnInteger THEN Rejected("Invalid end index")
              ELSE Parsed(Cmd("LRANGE", args[2], <<>>, <<>>,
                          ParseI64(args[3]), ParseI64(args[4])))
         [] c = "LPOP" ->
              IF n < 2 \/ n > 3 THEN WrongArity(c)
              ELSE IF n = 2 THEN Parsed(Cmd("LPOP", args[2], <<>>, <<>>, NoCount, 0))
              ELSE IF ParseI64(args[3]) = NotAnInteger THEN Rejected("Invalid count value")
              ELSE Parsed(Cmd("LPOP", args[2], <<>>, <<>>, ParseI64(args[3]), 0))
         [] c \in {"BLPOP", "BRPOP"} ->
              IF n < 3 THEN WrongArity(c)
              ELSE IF TimeoutMillis(args[n]) = InvalidNumber
                   THEN Rejected("Invalid timeout value")
              ELSE Parsed(Cmd(c, "", SubSeq(args, 2, n - 1), <<>>, TimeoutMillis(args[n]), 0))
         [] c = "TYPE" ->
              IF n # 2 THEN WrongArity(c) ELSE Parsed(Cmd("TYPE", args[2], <<>>, <<>>, 0, 0))
         [] c = "ZADD" ->
              IF n # 4 THEN WrongArity(c)
              ELSE IF ParseF64(args[3]) = NotAnInteger THEN Rejected("Invalid score value")
              ELSE Parsed(Cmd("ZADD", args[2], <<>>, <<args[4]>>, ParseF64(args[3]), 0))
         [] c = "ZCARD" ->
              IF n # 2 THEN WrongArity(c) ELSE Parsed(Cmd("ZCARD", args[2], <<>>, <<>>, 0, 0))
         [] c = "ZREM" ->
              IF n # 3 THEN WrongArity(c)
              ELSE Parsed(Cmd("ZREM", args[2], <<>>, <<args[3]>>, 0, 0))
         [] c = "ZRANGE" ->
              IF n # 4 THEN WrongArity(c)
              ELSE IF ParseI64(args[3]) = NotAnInteger THEN Rejected("Invalid start index")
              ELSE IF ParseI64(args[4]) = NotAnInteger THEN Rejected("Invalid end index")
              ELSE Parsed(Cmd("ZRANGE", args[2], <<>>, <<>>,
                          ParseI64(args[3]), ParseI64(args[4])))
         [] c = "XADD" ->      \* keys holds the (field, value) pairs
              IF n < 4 \/ n % 2 = 0 THEN WrongArity(c)
              ELSE Parsed(Cmd("XADD", args[2],
                              [i \in 1 .. (n - 3) \div 2 |-> <<args[2 * i + 2], args[2 * i + 3]>>],
                              <<args[3]>>, 0, 0))
         [] c = "XRANGE" ->
              IF n # 4 THEN WrongArity(c)
              ELSE Parsed(Cmd("XRANGE", args[2], <<>>, <<args[3], args[4]>>, 0, 0))
         [] c = "XREAD" ->     \* keys holds the (key, id) pairs, vals the BLOCK time
              IF n < 4 THEN WrongArity(c)
              ELSE IF args[2] = "BLOCK"
                   THEN IF n < 6 THEN WrongArity("XREAD with BLOCK")
                        ELSE IF ParseU128(args[3]) = InvalidNumber
                             THEN Rejected("Invalid BLOCK time value")
                             ELSE StreamsOf(args, 4, <<ParseU128(args[3])>>)
                   ELSE StreamsOf(args, 2, <<>>)
         [] c \in {"MULTI", "EXEC", "DISCARD"} ->
              IF n # 1 THEN WrongArity(c) ELSE Parsed(Cmd(c, "", <<>>, <<>>, 0, 0))
         [] OTHER -> Rejected("Unknown command: " \o c)

-----------------------------------------------------------------------------
(* RedisCommandExecutor::execute: [st, response].                          *)

SimpleStrings(items) == [i \in 1 .. Len(items) |-> SimpleString(items[i])]

\* the (field, value) pairs of a stream entry as a flat array of bulk strings
RECURSIVE FieldReplies(_)
FieldReplies(fields) ==
    IF fields = <<>> THEN <<>>
    ELSE <<BulkString(Head(fields)[1]), BulkString(Head(fields)[2])>>
             \o FieldReplies(Tail(fields))

\* the entries of a stream as [id, [field, value, ...]] arrays
EntryReplies(entries) ==
    [i \in 1 .. Len(entries) |->
        Array(<<BulkString(IdText(entries[i].id)), Array(FieldReplies(entries[i].fields))>>)]

\* the results of XREAD as [key, [entry, ...]] arrays
StreamReplies(results) ==
    [i \in 1 .. Len(results) |->
        Array(<<BulkString(results[i][1]), Array(EntryReplies(results[i][2]))>>)]

\* the reply of a blocking pop that found an element at once
immediate_pop_reply(pair) == BulkString(pair[2])

execute(st, cmd, token, g_cmd) ==
    CASE cmd.op = "PING" ->
           [st |-> st,
            response |-> IF cmd.vals = <<>> THEN pong ELSE BulkString(cmd.vals[1])]
      [] cmd.op = "GET" ->
           With(get(st, cmd.key), LAMBDA r :
           [st |-> r.st, response |-> IF r.some THEN BulkString(r.value) ELSE nil])
      [] cmd.op = "SET" ->
           [st |-> set(st, cmd.key, cmd.vals[1]), response |-> ok]
      [] cmd.op = "SetWithExpiry" ->
           [st |-> set_with_expiry(st, cmd.key, cmd.vals[1], cmd.n), response |-> ok]
      [] cmd.op = "EXISTS" ->
           [st |-> st, response |-> Integer(exists_multiple(st, cmd.keys))]
      [] cmd.op = "INCR" ->
           With(incr(st, cmd.key), LAMBDA r :
           [st |-> r.st,
            response |-> IF r.some THEN Integer(r.value)
                         ELSE Error("value is not an integer or out of range")])
      [] cmd.op = "RPUSH" ->
           With(rpush(st, cmd.key, cmd.vals), LAMBDA r :
           [st |-> r.st, response |-> Integer(r.length)])
      [] cmd.op = "LPUSH" ->
           With(lpush(st, cmd.key, cmd.vals), LAMBDA r :
           [st |-> r.st, response |-> Integer(r.length)])
      [] cmd.op = "LLEN" ->
           [st |-> st, response |-> Integer(llen(st, cmd.key))]
      [] cmd.op = "LRANGE" ->
           LET r == lrange(st, cmd.key, cmd.n, cmd.m) IN
           [st |-> st, response |-> Array(SimpleStrings(r.items))]
      [] cmd.op = "LPOP" ->
           With(IF cmd.n = NoCount THEN 1 ELSE as_usize(cmd.n), LAMBDA count :
           With(lpop(st, cmd.key, count), LAMBDA r :
           [st |-> r.st,
            response |-> IF ~r.some \/ r.items = <<>> THEN nil
                         ELSE IF count = 1 THEN BulkString(r.items[1])
                         ELSE Array(SimpleStrings(r.items))]))
      [] cmd.op \in {"BLPOP", "BRPOP"} ->
           With(IF cmd.op = "BLPOP" THEN blpop(st, cmd.keys, token, cmd.n, g_cmd)
                ELSE brpop(st, cmd.keys, token, cmd.n, g_cmd), LAMBDA r :
           [st |-> r.st,
            response |-> IF r.some THEN immediate_pop_reply(r.pair) ELSE Blocked])
      [] cmd.op = "TYPE" ->
           [st |-> st, response |-> SimpleString(get_type(st, cmd.key))]
      [] cmd.op = "ZADD" ->
           With(zadd(st, cmd.key, cmd.n, cmd.vals[1]), LAMBDA r :
           [st |-> r.st, response |-> Integer(r.added)])
      [] cmd.op = "ZCARD" ->
           [st |-> st, response |-> Integer(zcard(st, cmd.key))]
      [] cmd.op = "ZREM" ->
           With(zrem(st, cmd.key, cmd.vals[1]), LAMBDA r :
           [st |-> r.st, response |-> Integer(IF r.removed THEN 1 ELSE 0)])
      [] cmd.op = "ZRANGE" ->
           LET r == zrange(st, cmd.key, cmd.n, cmd.m) IN
           [st |-> st, response |-> Array(SimpleStrings(r.items))]
      [] cmd.op = "XADD" ->
           With(xadd(st, cmd.key, cmd.vals[1], cmd.keys), LAMBDA r :
           [st |-> r.st,
            response |-> IF r.okay THEN BulkString(r.text) ELSE Error(r.text)])
      [] cmd.op = "XRANGE" ->
           LET r == xrange(st, cmd.key, cmd.vals[1], cmd.vals[2]) IN
           [st |-> st, response |-> Array(EntryReplies(r.entries))]
      [] cmd.op = "XREAD" ->
           With(xread(st, token, cmd.vals, cmd.keys, g_cmd), LAMBDA r :
           [st |-> r.st,
            response |-> IF r.some THEN Array(StreamReplies(r.results)) ELSE Empty])
      [] cmd.op = "MULTI" -> [st |-> start_multi(st, token, g_cmd), response |-> Empty]
      [] cmd.op = "EXEC" -> [st |-> execute_queue(st, token, g_cmd), response |-> Empty]
      [] cmd.op = "DISCARD" -> [st |-> discard_queue(st, token, g_cmd), response |-> Empty]

-----------------------------------------------------------------------------
(* Client: the state of one connection.                                    *)

\* the token space: the runs of SpecWake accept one connection more
MaxTokens == MaxClients + 1
Tokens == FirstToken .. MaxTokens

Client(state, write_buffer, write_pos, interest, multi, execution_queue, g_cmd, g_park) ==
    [state |-> state, write_buffer |-> write_buffer, write_pos |-> write_pos,
     interest |-> interest, multi |-> multi, execution_queue |-> execution_queue,
     g_cmd |-> g_cmd, g_park |-> g_park]

NoClient == Client("None", <<>>, 0, "NONE", FALSE, <<>>, 0, 0)  \* not in the map

\* Client::new, registered for READABLE by handle_new_connections
NewClient == Client("Reading", <<>>, 0, "READABLE", FALSE, <<>>, 0, 0)

Connected(w, token) == w.clients[token] # NoClient

\* Client::has_pending_writes
has_pending_writes(c) == c.write_pos < Len(c.write_buffer)

\* Client::is_blocked
is_blocked(c) == c.state = "Blocked"

\* Client::block
block(c) == [c EXCEPT !.state = "Blocked"]

\* Client::unblock
unblock(c) == [c EXCEPT !.state = "Reading"]

\* Client::is_multi, ::enter_multi, ::exit_multi
is_multi(c) == c.multi
enter_multi(c) == [c EXCEPT !.multi = TRUE]
exit_multi(c) == [c EXCEPT !.multi = FALSE, !.execution_queue = <<>>]

\* an add_response that rewinds the cursor to the start of the buffer
add_response_rewinding(c, bytes, g_cmd) ==
    [c EXCEPT !.write_buffer = IF bytes = "" THEN @
                               ELSE Append(@, [bytes |-> bytes, g_cmd |-> g_cmd]),
              !.write_pos = 0,
              !.state = "Writing"]

\* Client::add_response: the bytes of one reply are one chunk of the buffer
add_response(c, bytes, g_cmd) ==
    [c EXCEPT !.write_buffer = IF bytes = "" THEN @
                               ELSE Append(@, [bytes |-> bytes, g_cmd |-> g_cmd]),
              !.state = "Writing"]

\* "if client.has_pending_writes() { reregister(.., Interest::WRITABLE) }"
arm_writable(c) == IF has_pending_writes(c) THEN [c EXCEPT !.interest = "WRITABLE"] ELSE c

\* add_response followed by the re-registration, as every caller does
Respond(w, token, response, g_cmd) ==
    With(to_resp(response), LAMBDA bytes :
    [w EXCEPT !.clients[token] = arm_writable(add_response(@, bytes, g_cmd)),
              !.g_log[token] = IF bytes = "" THEN @
                               ELSE Append(@, [bytes |-> bytes, g_cmd |-> g_cmd,
                                               response |-> response])])

-----------------------------------------------------------------------------
(* EventLoop: the handlers of the control channel.                         *)

\* EventLoop::unblock_client_internal
unblock_client_internal(w, token, response, g_key) ==
    IF Connected(w, token) /\ is_blocked(w.clients[token])
    THEN LET c == w.clients[token]
             woke == [w EXCEPT !.clients[token] = unblock(@),
                               !.blocked_clients_timeout[token] = NoTimeout,
                               !.g_woken = Append(@, [token |-> token, g_key |-> g_key,
                                                      g_park |-> c.g_park])]
         IN Respond(woke, token, response, c.g_cmd)
    ELSE w

\* EventLoop::block_client_internal
block_client_internal(w, token, timeout_milliseconds, g_cmd, g_park) ==
    IF Connected(w, token)
    THEN [w EXCEPT !.clients[token] = [block(@) EXCEPT !.g_cmd = g_cmd, !.g_park = g_park],
                   !.blocked_clients_timeout[token] =
                       IF timeout_milliseconds # 0 THEN w.now + timeout_milliseconds ELSE @]
    ELSE w

\* EventLoop::start_multi_internal
start_multi_internal(w, token, g_cmd) ==
    IF ~Connected(w, token) THEN w
    ELSE IF is_multi(w.clients[token])
         THEN Respond(w, token, Error("MULTI calls can not be nested"), g_cmd)
         ELSE Respond([w EXCEPT !.clients[token] = enter_multi(@)], token, ok, g_cmd)

\* EventLoop::discard_queue_internal
discard_queue_internal(w, token, g_cmd) ==
    IF ~Connected(w, token) THEN w
    ELSE IF ~is_multi(w.clients[token])
         THEN Respond(w, token, Error("DISCARD without MULTI"), g_cmd)
         ELSE [w EXCEPT !.clients[token] = exit_multi(@)]

\* the for loop of exec_queue_internal over the drained queue: [w, responses]
RECURSIVE ExecDrained(_, _, _, _)
ExecDrained(w, token, queue, responses) ==
    IF queue = <<>> \/ w.panicked THEN [w |-> w, responses |-> responses]
    ELSE With(execute(w, Head(queue).cmd, token, Head(queue).g_cmd), LAMBDA r :
         ExecDrained(r.st, token, Tail(queue), Append(responses, r.response)))

\* an EXEC handler that runs the queue without looking at the transaction flag
exec_unguarded(w, token, g_cmd) ==
    IF ~Connected(w, token) THEN w
    ELSE Respond([w EXCEPT !.clients[token] = exit_multi(@)], token, Array(<<>>), g_cmd)

\* EventLoop::exec_queue_internal
exec_queue_internal(w, token, g_cmd) ==
    IF ~Connected(w, token) THEN w
    ELSE IF ~is_multi(w.clients[token])
         THEN Respond(w, token, Error("EXEC without MULTI"), g_cmd)
         ELSE With(ExecDrained([w EXCEPT !.clients[token].execution_queue = <<>>],
                               token, w.clients[token].execution_queue, <<>>), LAMBDA r :
              IF r.w.panicked THEN r.w ELSE
              Respond([r.w EXCEPT !.clients[token] = exit_multi(@)],
                      token, Array(r.responses), g_cmd))

\* one arm of the match in process_messages
handle_message(w, m) ==
    CASE m.type = "UnblockClient" ->
           unblock_client_internal(w, m.token, m.response, m.g_key)
      [] m.type = "BlockClient" ->
           block_client_internal(w, m.token, m.timeout, m.g_cmd, m.g_park)
      [] m.type = "StartMulti" -> start_multi_internal(w, m.token, m.g_cmd)
      [] m.type = "ExecuteQueue" -> exec_queue_internal(w, m.token, m.g_cmd)
      [] m.type = "DiscardQueue" -> discard_queue_internal(w, m.token, m.g_cmd)

\* EventLoop::process_messages: try_recv until the channel is empty
RECURSIVE process_messages(_)
process_messages(w) ==
    IF w.channel = <<>> \/ w.panicked THEN w
    ELSE process_messages(handle_message([w EXCEPT !.channel = Tail(@)], Head(w.channel)))

\* EventLoop::handle_blocked_client_timeouts, for the tokens from t on
RECURSIVE TimeoutsFrom(_, _)
TimeoutsFrom(w, t) ==
    IF t > MaxTokens THEN w
    ELSE IF w.blocked_clients_timeout[t] # NoTimeout /\ w.blocked_clients_timeout[t] <= w.now
         THEN LET removed == [w EXCEPT !.blocked_clients_timeout[t] = NoTimeout]
              IN TimeoutsFrom(unblock_client_internal(removed, t, nil, ""), t + 1)
         ELSE TimeoutsFrom(w, t + 1)

handle_blocked_client_timeouts(w) == TimeoutsFrom(w, FirstToken)

-----------------------------------------------------------------------------
(* EventLoop: the handlers of socket events.                               *)

\* what process_client_commands does with a command of a connection in MULTI
queue_command(w, token, p, g_cmd) ==
    IF p.okay
    THEN [w EXCEPT !.clients[token].execution_queue =
                       Append(@, [cmd |-> p.cmd, g_cmd |-> g_cmd])]
    ELSE Respond(w, token, Error(p.err), g_cmd)

\* what process_client_commands does with a command outside MULTI
run_command(w, token, p, g_cmd) ==
    With(IF p.okay THEN execute(w, p.cmd, token, g_cmd)
         ELSE [st |-> w, response |-> Error(p.err)], LAMBDA r :
    IF r.response = Blocked \/ r.st.panicked THEN r.st
    ELSE Respond(r.st, token, r.response, g_cmd))

\* EventLoop::process_client_commands over the commands framed in one read
RECURSIVE process_client_commands(_, _, _)
process_client_commands(w, token, commands) ==
    IF commands = <<>> \/ w.panicked THEN w
    ELSE LET args == Head(commands)
             g_cmd == Len(w.g_recv[token]) + 1
             multi == is_multi(w.clients[token])
         IN With([w EXCEPT !.g_recv[token] =
                               Append(@, [args |-> args, multi |-> multi])], LAMBDA seen :
            With(parse(args), LAMBDA p :
            process_client_commands(IF multi THEN queue_command(seen, token, p, g_cmd)
                                    ELSE run_command(seen, token, p, g_cmd),
                                    token, Tail(commands))))

\* EventLoop::handle_client_read with Client::read_data
handle_client_read(w, token, commands) ==
    IF w.clients[token].state # "Reading" THEN w
    ELSE process_client_commands(w, token, commands)

\* Client::write_data taking n chunks, then handle_client_write's re-arming
handle_client_write(w, token, n) ==
    LET c == w.clients[token]
        pos == c.write_pos + n
    IN With(IF pos >= Len(c.write_buffer)
            THEN [c EXCEPT !.write_buffer = <<>>, !.write_pos = 0, !.state = "Reading"]
            ELSE [c EXCEPT !.write_pos = pos], LAMBDA written :
       [w EXCEPT !.clients[token] =
           IF has_pending_writes(written) THEN written
           ELSE [written EXCEPT !.interest = "READABLE"]])

\* EventLoop::close_client
close_client(w, token) == [w EXCEPT !.clients[token] = NoClient]

-----------------------------------------------------------------------------
(* The state machine.                                                      *)

\* the state as the record the handlers work on
World ==
    [clients |-> clients, storage |-> storage, blocked_clients |-> blocked_clients,
     channel |-> channel, blocked_clients_timeout |-> blocked_clients_timeout,
     now |-> now, panicked |-> panicked, overflow_checks |-> cfg.overflow_checks,
     g_log |-> g_log, g_recv |-> g_recv, g_parks |-> g_parks,
     g_woken |-> g_woken]

Install(w) ==
    /\ clients' = w.clients
    /\ storage' = w.storage
    /\ blocked_clients' = w.blocked_clients
    /\ channel' = w.channel
    /\ blocked_clients_timeout' = w.blocked_clients_timeout
    /\ panicked' = w.panicked
    /\ g_log' = w.g_log
    /\ g_recv' = w.g_recv
    /\ g_parks' = w.g_parks
    /\ g_woken' = w.g_woken

RECURSIVE SumLen(_, _)
SumLen(f, t) == IF t > MaxTokens THEN 0 ELSE Len(f[t]) + SumLen(f, t + 1)

\* number of commands received so far, over all connections
Received == SumLen(g_recv, FirstToken)

\* the reads a connection may deliver: each a sequence of complete commands
Frames == cfg.frames

\* the amounts one write(2) may take of the pending chunks
Writes(c) ==
    LET pending == Len(c.write_buffer) - c.write_pos
    IN  IF cfg.partial THEN 1 .. pending ELSE {pending}

\* EventLoop::new
InitReactor(c) ==
    /\ cfg = c
    /\ clients = [t \in Tokens |-> NoClient]
    /\ next_token = FirstToken
    /\ storage = [k \in Keys |-> NoUnit]
    /\ blocked_clients = [k \in Keys |-> <<>>]
    /\ channel = <<>>
    /\ blocked_clients_timeout = [t \in Tokens |-> NoTimeout]
    /\ now = 0
    /\ phase = "poll"
    /\ served = {}
    /\ panicked = FALSE
    /\ g_log = [t \in Tokens |-> <<>>]
    /\ g_recv = [t \in Tokens |-> <<>>]
    /\ g_parks = 0
    /\ g_woken = <<>>

\* a run at the level of command lines: nothing is on the wire
InitWith(c) ==
    /\ InitReactor(c)
    /\ wire = <<>>
    /\ read_buffer = <<>>
    /\ expecting_rdb = TRUE
    /\ g_frames = <<>>
    /\ g_parsed = <<>>

\* self.poll.poll(&mut self.events, timeout): returns after dt milliseconds
Poll ==
    /\ phase = "poll"
    /\ \E dt \in 0 .. (cfg.max_time - now) : now' = now + dt
    /\ phase' = "timeouts"
    /\ served' = {}
    /\ UNCHANGED <<clients, next_token, storage, blocked_clients, channel,
                   blocked_clients_timeout, cfg, panicked,
                   g_log, g_recv, g_parks, g_woken, byte_vars>>

HandleBlockedClientTimeouts ==
    /\ phase = "timeouts"
    /\ Install(handle_blocked_client_timeouts([World EXCEPT !.g_woken = <<>>]))
    /\ phase' = "messages"
    /\ UNCHANGED <<next_token, now, served, cfg, byte_vars>>

ProcessMessages ==
    /\ phase = "messages"
    /\ Install(process_messages(World))
    /\ phase' = "events"
    /\ UNCHANGED <<next_token, now, served, cfg, byte_vars>>

\* EventLoop::handle_new_connections accepting one connection
HandleNewConnections ==
    /\ phase = "events"
    /\ ~panicked
    /\ next_token <= cfg.max_clients
    /\ clients' = [clients EXCEPT ![next_token] = NewClient]
    /\ next_token' = next_token + 1
    /\ UNCHANGED <<storage, blocked_clients, channel, blocked_clients_timeout, now,
                   phase, served, cfg, panicked, g_log, g_recv, g_parks, g_woken,
                   byte_vars>>

HandleClientRead ==
    /\ phase = "events"
    /\ ~panicked
    /\ \E token \in Tokens \ served :
         /\ clients[token] # NoClient
         /\ clients[token].interest = "READABLE"
         /\ \E commands \in Frames :
              /\ Received + Len(commands) <= cfg.max_cmds
              /\ Install(handle_client_read(World, token, commands))
         /\ served' = served \cup {token}
    /\ UNCHANGED <<next_token, now, phase, cfg, byte_vars>>

HandleClientWrite ==
    /\ phase = "events"
    /\ ~panicked
    /\ \E token \in Tokens \ served :
         /\ clients[token] # NoClient
         /\ clients[token].interest = "WRITABLE"
         /\ \E n \in Writes(clients[token]) :
              Install(handle_client_write(World, token, n))
         /\ served' = served \cup {token}
    /\ UNCHANGED <<next_token, now, phase, cfg, byte_vars>>

\* EventLoop::cleanup_closed_clients, the end of one turn of the loop
CleanupClosedClients ==
    /\ phase = "events"
    /\ ~panicked
    /\ phase' = "poll"
    /\ UNCHANGED <<clients, next_token, storage, blocked_clients, channel,
                   blocked_clients_timeout, now, served, cfg, panicked,
                   g_log, g_recv, g_parks, g_woken, byte_vars>>

\* the event of a connection whose peer has closed: is_read_closed makes
\* run call close_client once the read and write handlers have returned
HandleClientClosed ==
    /\ phase = "events"
    /\ ~panicked
    /\ \E token \in Tokens \ served :
         /\ clients[token] # NoClient
         /\ Install(close_client(World, token))
         /\ served' = served \cup {token}
    /\ UNCHANGED <<next_token, now, phase, cfg, byte_vars>>

\* read_data or write_data returns an error: handle_client_read or
\* handle_client_write returns it and run closes the connection
HandleClientIoError ==
    /\ phase = "events"
    /\ ~panicked
    /\ \E token \in Tokens \ served :
         /\ clients[token] # NoClient
         /\ clients[token].interest \in {"READABLE", "WRITABLE"}
         /\ Install(close_client(World, token))
         /\ served' = served \cup {token}
    /\ UNCHANGED <<next_token, now, phase, cfg, byte_vars>>

\* an event whose token is no longer in the map of connections:
\* "if !self.clients.contains_key(&token) { return Ok(()); }" ends run
HandleStaleEvent ==
    /\ phase = "events"
    /\ ~panicked
    /\ \E token \in Tokens \ served : token < next_token /\ clients[token] = NoClient
    /\ phase' = "returned"
    /\ UNCHANGED <<clients, next_token, storage, blocked_clients, channel,
                   blocked_clients_timeout, now, served, cfg, panicked,
                   g_log, g_recv, g_parks, g_woken, byte_vars>>

\* the reregister of unblock_client_internal fails for the first message of
\* the channel: "?" returns the error from process_messages and from run,
\* the connection being unblocked with its reply in the buffer
ProcessMessagesIoError ==
    /\ phase = "messages"
    /\ ~panicked
    /\ channel # <<>>
    /\ Head(channel).type = "UnblockClient"
    /\ clients[Head(channel).token] # NoClient
    /\ is_blocked(clients[Head(channel).token])
    /\ to_resp(Head(channel).response) # ""
    /\ Install([handle_message([World EXCEPT !.channel = Tail(@)], Head(channel))
                   EXCEPT !.clients[Head(channel).token].interest =
                              clients[Head(channel).token].interest])
    /\ phase' = "returned"
    /\ UNCHANGED <<next_token, now, served, cfg, byte_vars>>

\* "for command_args in commands { if command_args.is_empty() { continue; } .."
NonEmpty(commands) == SelectSeq(commands, LAMBDA args : args # <<>>)

\* EventLoop::handle_client_read on the bytes of the wire: Client::read_data
\* appends the n bytes that have arrived, process_client_commands frames the
\* buffer, drains what was consumed and runs the commands
HandleClientReadBytes ==
    /\ phase = "events"
    /\ ~panicked
    /\ FirstToken \notin served
    /\ clients[FirstToken] # NoClient
    /\ clients[FirstToken].interest = "READABLE"
    /\ clients[FirstToken].state = "Reading"
    /\ \E n \in 1 .. Len(wire) :
         LET buffer == read_buffer \o Take(wire, n)
             r == parse_commands(expecting_rdb, buffer)
         IN  /\ wire' = Drop(wire, n)
             /\ read_buffer' = Drop(buffer, r.pos)
             /\ expecting_rdb' = r.expecting_rdb
             /\ g_parsed' = g_parsed \o r.commands
             /\ Install(process_client_commands(World, FirstToken, NonEmpty(r.commands)))
    /\ served' = served \cup {FirstToken}
    /\ UNCHANGED <<next_token, now, phase, cfg, g_frames>>

Next ==
    \/ Poll
    \/ HandleBlockedClientTimeouts
    \/ ProcessMessages
    \/ HandleNewConnections
    \/ HandleClientRead
    \/ HandleClientWrite
    \/ CleanupClosedClients

-----------------------------------------------------------------------------
(* The runs that are checked: the same program under two input alphabets.  *)

ListFrames ==
    { << <<"BLPOP", "k", "a", "0">> >>,
      << <<"BLPOP", "a", "0">> >>,
      << <<"RPUSH", "k", "v">> >>,
      << <<"LPUSH", "a", "v">> >>,
      << <<"BLPOP", "a", "0">>, <<"LPUSH", "a", "v">> >> }

ListCfg ==
    [frames |-> ListFrames, max_cmds |-> MaxCmds, max_clients |-> MaxClients,
     max_time |-> 0, partial |-> FALSE, overflow_checks |-> FALSE]

Init == InitWith(ListCfg)

Spec == Init /\ [][Next]_vars

\* the same program with connections that may close
NextClose == Next \/ HandleClientClosed

\* the same program with one connection that is read byte by byte
NextBytes ==
    \/ Poll
    \/ HandleBlockedClientTimeouts
    \/ ProcessMessages
    \/ HandleNewConnections
    \/ HandleClientReadBytes
    \/ HandleClientWrite
    \/ CleanupClosedClients

\* the environment of a run: its reads, the number of commands it receives
\* and the milliseconds its clock advances; writes take all pending replies
RunCfg(frames, max_cmds, max_time) ==
    [frames |-> frames, max_cmds |-> max_cmds, max_clients |-> MaxClients,
     max_time |-> max_time, partial |-> FALSE, overflow_checks |-> FALSE]

\* shorter runs over pushes and blocking pops only
PushFrames ==
    { << <<"BLPOP", "k", "a", "0">> >>,
      << <<"RPUSH", "k", "v">> >>,
      << <<"LPUSH", "k", "v">> >>,
      << <<"LPUSH", "a", "v">> >> }

PushCfg ==
    [frames |-> PushFrames, max_cmds |-> MaxPushCmds, max_clients |-> MaxClients,
     max_time |-> 0, partial |-> FALSE, overflow_checks |-> FALSE]

InitPush == InitWith(PushCfg)

SpecPush == InitPush /\ [][Next]_vars

-----------------------------------------------------------------------------
(* Vocabulary of the properties.                                           *)

Last(q) == q[Len(q)]

\* the keys named by a BLPOP/BRPOP command line
KeysOfArgs(args) == {args[i] : i \in 2 .. Len(args) - 1}

\* the keys of the blocking command connection t is parked on
ParkKeys(t) ==
    IF clients[t].g_cmd = 0 THEN {}
    ELSE KeysOfArgs(g_recv[t][clients[t].g_cmd].args)

\* the replies enqueued so far for the i-th command of connection t
RepliesTo(t, i) == {j \in 1 .. Len(g_log[t]) : g_log[t][j].g_cmd = i}

\* a message of the given type for command i of connection t is in flight
InFlight(type, t, i) ==
    \E j \in 1 .. Len(channel) :
        channel[j].type = type /\ channel[j].token = t /\ channel[j].g_cmd = i

ListLen(key) == IF is_list(storage[key]) THEN Len(storage[key].l) ELSE 0

\* this step is connection p reading exactly one command line, outside MULTI
ReadsOne(p, args) ==
    g_recv'[p] = Append(g_recv[p], [args |-> args, multi |-> FALSE])

PushArgs(key) == {<<"RPUSH", key, "v">>, <<"LPUSH", key, "v">>}

\* this step is connection p pushing one value to key
PushStep(p, key) == \E args \in PushArgs(key) : ReadsOne(p, args)

-----------------------------------------------------------------------------
(* Properties of replies, parking and wakes.                               *)

\* C1: on every connection the replies are enqueued in the order of the
\* commands they answer: a reply to command i never follows a reply to a
\* later command j > i.
C1_RepliesInCommandOrder ==
    \A t \in Tokens : \A i, j \in 1 .. Len(g_log[t]) :
        i < j => g_log[t][i].g_cmd <= g_log[t][j].g_cmd

\* C2: data pushed to a key is never delivered to a connection while another
\* connection that parked on the key earlier is still parked on it.
C2_WakesFollowParkOrder ==
    \A i \in 1 .. Len(g_woken) :
        LET e == g_woken[i] IN
        e.g_key # "" =>
            \A a \in Tokens \ {e.token} :
                ~(/\ is_blocked(clients[a])
                  /\ e.g_key \in ParkKeys(a)
                  /\ clients[a].g_park < e.g_park)

\* connection b is parked without deadline on the empty key
ParkedForever(b, key) ==
    /\ is_blocked(clients[b])
    /\ blocked_clients_timeout[b] = NoTimeout
    /\ key \in ParkKeys(b)
    /\ \A k \in ParkKeys(b) : ListLen(k) = 0

\* the element pushed to key is on its way to b and is not in the keyspace
HandedTo(b, key) ==
    /\ \E j \in 1 .. Len(channel) :
           /\ channel[j].type = "UnblockClient"
           /\ channel[j].token = b
           /\ channel[j].response = Array(<<BulkString(key), BulkString("v")>>)
    /\ ListLen(key) = 0

\* connection t has a BLPOP/BRPOP that no reply has answered yet
Unanswered(t) ==
    \E i \in 1 .. Len(g_recv[t]) :
        g_recv[t][i].args[1] \in {"BLPOP", "BRPOP"} /\ RepliesTo(t, i) = {}

\* C3: when a connection is parked by BLPOP with timeout 0 on an empty key, no
\* other connection waits for data, and another connection pushes one element
\* to the key, the element is handed to the parked connection in the same step
\* and is not left in the keyspace.
C3_PushHandsOffToWaiter ==
    [][\A b \in Tokens, p \in Tokens, key \in Keys :
           (/\ b # p
            /\ ParkedForever(b, key)
            /\ \A t \in Tokens \ {b} : ~Unanswered(t)
            /\ PushStep(p, key)) => HandedTo(b, key)']_vars

\* C4: the reply of RPUSH/LPUSH is the length of the list right after the
\* value is added, counted before any parked connection consumes it; when the
\* key was absent and a park record waits on it, the reply is 1 and the key is
\* absent afterwards.
C4_PushRepliesLengthBeforeWake ==
    [][\A p \in Tokens, key \in Keys :
           PushStep(p, key) =>
              /\ Len(g_log'[p]) = Len(g_log[p]) + 1
              /\ Last(g_log'[p]).g_cmd = Len(g_recv'[p])
              /\ Last(g_log'[p]).bytes = ":" \o to_string(ListLen(key) + 1) \o CRLF
              /\ (storage[key] = NoUnit /\ blocked_clients[key] # <<>>) =>
                     /\ Last(g_log'[p]).bytes = ":1\r\n"
                     /\ storage'[key] = NoUnit]_vars

\* C4 (witness): a push of one value to the absent key k, with a connection
\* parked on k, has been answered :1 and k is absent
C4_Witness ==
    \E p \in Tokens :
        /\ g_log[p] # <<>>
        /\ Last(g_log[p]).bytes = ":1\r\n"
        /\ g_recv[p][Last(g_log[p]).g_cmd].args = <<"RPUSH", "k", "v">>
        /\ \E b \in Tokens \ {p} : is_blocked(clients[b]) /\ "k" \in ParkKeys(b)
        /\ \E j \in 1 .. Len(channel) : channel[j].type = "UnblockClient"
        /\ storage["k"] = NoUnit

\* the replies BLPOP/BRPOP may give for a command line: [key, element]
PopReplies(args) ==
    {Array(<<BulkString(key), BulkString("v")>>) : key \in KeysOfArgs(args)}

\* C5: every reply to a BLPOP/BRPOP, whether it found a non-empty list at
\* once or was parked and woken later, is the two-element array [key, element].
C5_PopRepliesKeyAndElement ==
    \A t \in Tokens : \A j \in 1 .. Len(g_log[t]) :
        LET args == g_recv[t][g_log[t][j].g_cmd].args IN
        args[1] \in {"BLPOP", "BRPOP"} => g_log[t][j].response \in PopReplies(args)

-----------------------------------------------------------------------------
(* Properties of transactions, checked on runs over MULTI/EXEC/DISCARD.    *)

TxFrames ==
    { << <<"MULTI">> >>, << <<"SET", "a", "1">> >>, << <<"INCR", "a">> >>,
      << <<"EXEC">> >>, << <<"DISCARD">> >>,
      << <<"MULTI">>, <<"INCR", "a">> >>,
      << <<"MULTI">>, <<"EXEC">> >>,
      << <<"MULTI">>, <<"DISCARD">> >>,
      << <<"MULTI">>, <<"MULTI">> >> }

TxCfg ==
    [frames |-> TxFrames, max_cmds |-> MaxCmds, max_clients |-> MaxClients,
     max_time |-> 0, partial |-> FALSE, overflow_checks |-> FALSE]

InitTx == InitWith(TxCfg)

SpecTx == InitTx /\ [][Next]_vars

\* the commands of connection t received while it was in a transaction
InTransaction(t) == {i \in 1 .. Len(g_recv[t]) : g_recv[t][i].multi}

\* some reply to command i of connection t has exactly these bytes
Answered(t, i, bytes) == \E j \in RepliesTo(t, i) : g_log[t][j].bytes = bytes

\* the number of commands queued by connection t ahead of its command i
QueuedAhead(t, i) ==
    LET outside == {m \in 1 .. i - 1 : ~g_recv[t][m].multi}
        opened == CHOOSE m \in outside : \A n \in outside : n <= m
    IN  i - opened - 1

\* C6: every command other than MULTI, EXEC and DISCARD that a connection
\* sends while it is in a transaction is answered +QUEUED and sits in the
\* connection's queue for as long as the transaction is open.
C6_QueuedAndAcknowledged ==
    \A t \in Tokens : \A i \in InTransaction(t) :
        g_recv[t][i].args[1] \notin {"MULTI", "EXEC", "DISCARD"} =>
            /\ Answered(t, i, "+QUEUED\r\n")
            /\ (clients[t].multi /\ \A m \in i .. Len(g_recv[t]) : m \in InTransaction(t)) =>
                   \E q \in 1 .. Len(clients[t].execution_queue) :
                       clients[t].execution_queue[q].g_cmd = i

\* C7: an EXEC sent in a transaction is either on its way to the reactor or
\* has been answered with one array holding one reply per queued command.
C7_ExecRepliesArrayOfQueue ==
    \A t \in Tokens : \A i \in InTransaction(t) :
        g_recv[t][i].args[1] = "EXEC" =>
            \/ InFlight("ExecuteQueue", t, i)
            \/ \E j \in RepliesTo(t, i) :
                   /\ g_log[t][j].response.t = "Array"
                   /\ Len(g_log[t][j].response.a) = QueuedAhead(t, i)

\* C8 (support): whenever an EXEC is on its way to the reactor, the queue of
\* its connection is empty, so no EXEC ever runs a queued command.
ExecFindsQueueEmpty ==
    \A j \in 1 .. Len(channel) :
        channel[j].type = "ExecuteQueue" =>
            clients[channel[j].token].execution_queue = <<>>

\* C9: a DISCARD sent in a transaction is either on its way to the reactor or
\* has been answered +OK.
C9_DiscardRepliesOk ==
    \A t \in Tokens : \A i \in InTransaction(t) :
        g_recv[t][i].args[1] = "DISCARD" =>
            InFlight("DiscardQueue", t, i) \/ Answered(t, i, "+OK\r\n")

\* C10: a MULTI sent in a transaction is never queued; it is on its way to the
\* reactor or has been answered with the error MULTI calls can not be nested.
C10_NestedMultiRejected ==
    \A t \in Tokens : \A i \in InTransaction(t) :
        g_recv[t][i].args[1] = "MULTI" =>
            /\ \A q \in 1 .. Len(clients[t].execution_queue) :
                   clients[t].execution_queue[q].g_cmd # i
            /\ \/ InFlight("StartMulti", t, i)
               \/ Answered(t, i, "-ERR MULTI calls can not be nested\r\n")

\* the message at position j of the channel is an EXEC or DISCARD of a
\* connection that is not in a transaction and has no MULTI ahead of it
OutsideTransaction(j) ==
    /\ channel[j].type \in {"ExecuteQueue", "DiscardQueue"}
    /\ ~is_multi(clients[channel[j].token])
    /\ \A m \in 1 .. j - 1 :
           channel[m].token = channel[j].token => channel[m].type # "StartMulti"

WithoutMulti(type) ==
    IF type = "ExecuteQueue" THEN "-ERR EXEC without MULTI\r\n"
    ELSE "-ERR DISCARD without MULTI\r\n"

\* C11: when the reactor handles an EXEC or DISCARD of a connection that is
\* not in a transaction, it answers EXEC without MULTI or DISCARD without
\* MULTI, and the connection's transaction flag and queue are as before; a
\* turn that handles only such messages leaves the keyspace as it was.
C11_WithoutMultiRejected ==
    [][phase = "messages" =>
         /\ \A j \in 1 .. Len(channel), t \in Tokens, i \in 1 .. MaxCmds,
                type \in {"ExecuteQueue", "DiscardQueue"} :
                (/\ OutsideTransaction(j)
                 /\ channel[j].token = t
                 /\ channel[j].g_cmd = i
                 /\ channel[j].type = type) =>
                    /\ Answered(t, i, WithoutMulti(type))'
                    /\ Cardinality(RepliesTo(t, i))' = 1
                    /\ clients'[t].multi = clients[t].multi
                    /\ clients'[t].execution_queue = clients[t].execution_queue
         /\ (\A j \in 1 .. Len(channel) : OutsideTransaction(j)) =>
                storage' = storage]_vars

\* C11 (witness): an EXEC and a DISCARD sent outside a transaction have both
\* been answered with their error
C11_Witness ==
    \E t, u \in Tokens :
        /\ \E i \in 1 .. Len(g_recv[t]) :
               /\ g_recv[t][i].args = <<"EXEC">>
               /\ Answered(t, i, "-ERR EXEC without MULTI\r\n")
        /\ \E i \in 1 .. Len(g_recv[u]) :
               /\ g_recv[u][i].args = <<"DISCARD">>
               /\ Answered(u, i, "-ERR DISCARD without MULTI\r\n")
        /\ ~clients[t].multi /\ ~clients[u].multi

-----------------------------------------------------------------------------
(* Properties of the commands a transaction queues, checked on runs that   *)
(* queue blocking pops and failing increments.                             *)

QueueFrames ==
    { << <<"MULTI">> >>, << <<"EXEC">> >>, << <<"SET", "a", "x">> >>,
      << <<"INCR", "a">> >>, << <<"BLPOP", "k", "0">> >>, << <<"RPUSH", "k", "v">> >> }

SpecQueue == InitWith(RunCfg(QueueFrames, MaxCmds, 0)) /\ [][Next]_vars

\* command e of connection t is the EXEC that ends the transaction in which
\* its command i was queued
ClosedBy(t, i, e) ==
    /\ i < e
    /\ g_recv[t][e].args = <<"EXEC">>
    /\ \A m \in i .. e : m \in InTransaction(t)
    /\ \A m \in i .. e - 1 : g_recv[t][m].args[1] \notin {"EXEC", "DISCARD"}

\* connection t has a park record or a pending park for its command i
ParkedBy(t, i) ==
    \/ InFlight("BlockClient", t, i)
    \/ \E key \in Keys : \E r \in 1 .. Len(blocked_clients[key]) :
           blocked_clients[key][r].token = t /\ blocked_clients[key][r].g_cmd = i

\* C12: a BLPOP or BRPOP queued in a transaction never parks its connection
\* and adds no park record; once the transaction's EXEC has been handled, the
\* EXEC reply array holds, at the command's place, nil or [key, element].
C12_QueuedPopNeverParks ==
    \A t \in Tokens : \A i \in InTransaction(t) :
        g_recv[t][i].args[1] \in {"BLPOP", "BRPOP"} =>
            /\ ~ParkedBy(t, i)
            /\ \A e \in 1 .. Len(g_recv[t]) :
                   ClosedBy(t, i, e) =>
                       \/ InFlight("ExecuteQueue", t, e)
                       \/ \E j \in RepliesTo(t, e) :
                              /\ g_log[t][j].response.t = "Array"
                              /\ Len(g_log[t][j].response.a) > QueuedAhead(t, i)
                              /\ g_log[t][j].response.a[QueuedAhead(t, i) + 1]
                                     \in {nil} \cup PopReplies(g_recv[t][i].args)

\* the replies a queued command may have in the array of its EXEC
QueuedReplies(args) ==
    CASE args[1] = "SET" -> {ok}
      [] args[1] = "INCR" ->
           {Integer(n) : n \in 1 .. I64Max}
               \cup {Error("value is not an integer or out of range")}
      [] OTHER -> {}

\* C13: once the EXEC of a transaction has been handled, its reply is an
\* array with one element for every queued command, the ones queued after a
\* failing command included: the element of a SET is OK, the element of an
\* INCR is the new integer or the error of the failed increment.
C13_ExecKeepsFailedElement ==
    \A t \in Tokens : \A i \in InTransaction(t) :
        g_recv[t][i].args[1] \in {"SET", "INCR"} =>
            \A e \in 1 .. Len(g_recv[t]) :
                ClosedBy(t, i, e) =>
                    \/ InFlight("ExecuteQueue", t, e)
                    \/ \E j \in RepliesTo(t, e) :
                           /\ g_log[t][j].response.t = "Array"
                           /\ Len(g_log[t][j].response.a) = QueuedAhead(t, e)
                           /\ g_log[t][j].response.a[QueuedAhead(t, i) + 1]
                                  \in QueuedReplies(g_recv[t][i].args)

-----------------------------------------------------------------------------
(* Properties of deadlines, checked on runs in which the clock advances.   *)

TimedFrames ==
    { << <<"BLPOP", "k", "0.001">> >>,
      << <<"BLPOP", "k", "0">> >>,
      << <<"RPUSH", "k", "v">> >>,
      << <<"PING">>, <<"BLPOP", "k", "0.001">> >> }

SpecTimed == InitWith(RunCfg(TimedFrames, MaxTimedCmds, MaxTime)) /\ [][Next]_vars

\* some park record carries the token of connection t
HasParkRecord(t) ==
    \E key \in Keys : \E r \in 1 .. Len(blocked_clients[key]) :
        blocked_clients[key][r].token = t

\* the deadline of the parked connection t has passed and no data is on its way
DeadlinePassed(t) ==
    /\ is_blocked(clients[t])
    /\ blocked_clients_timeout[t] # NoTimeout
    /\ blocked_clients_timeout[t] <= now
    /\ \A j \in 1 .. Len(channel) :
           ~(channel[j].type = "UnblockClient" /\ channel[j].token = t)

\* C14: when the reactor looks at the deadlines and the deadline of a parked
\* connection has passed without data, it enqueues the null array *-1 for the
\* connection, the connection is no longer parked, and no park record and no
\* deadline entry carries its token afterwards.
C14_TimeoutRepliesNullArray ==
    [][phase = "timeouts" =>
         \A t \in Tokens :
             DeadlinePassed(t) =>
                 /\ Len(g_log'[t]) = Len(g_log[t]) + 1
                 /\ Last(g_log'[t]).bytes = "*-1\r\n"
                 /\ ~is_blocked(clients'[t])
                 /\ blocked_clients_timeout'[t] = NoTimeout
                 /\ ~HasParkRecord(t)']_vars

\* connection t is parked by a blocking pop whose timeout argument is 0
ParkedWithoutTimeout(t) ==
    /\ is_blocked(clients[t])
    /\ clients[t].g_cmd # 0
    /\ Last(g_recv[t][clients[t].g_cmd].args) = "0"

\* C15: a connection parked with timeout 0 has no deadline entry, the look at
\* the deadlines neither answers it nor un-parks it, and it leaves the parked
\* state only when the reactor handles a wake sent to it.
C15_NoDeadlineForTimeoutZero ==
    [][\A t \in Tokens :
           ParkedWithoutTimeout(t) =>
               /\ blocked_clients_timeout[t] = NoTimeout
               /\ phase = "timeouts" => (clients'[t] = clients[t] /\ g_log'[t] = g_log[t])
               /\ ~is_blocked(clients'[t]) =>
                      /\ phase = "messages"
                      /\ \E j \in 1 .. Len(channel) :
                             channel[j].type = "UnblockClient" /\ channel[j].token = t]_vars

-----------------------------------------------------------------------------
(* Properties of closing connections.                                      *)

CloseFrames ==
    { << <<"BLPOP", "k", "0">> >>,
      << <<"BLPOP", "k", "0.001">> >>,
      << <<"RPUSH", "k", "v">> >> }

SpecClose == InitWith(RunCfg(CloseFrames, MaxTimedCmds, 0)) /\ [][NextClose]_vars

\* connection t was accepted and has been closed
Closed(t) == t < next_token /\ clients[t] = NoClient

\* the number of wakes for connection t that are in the channel
WakesFor(t) ==
    Cardinality({j \in 1 .. Len(channel) :
                    channel[j].type = "UnblockClient" /\ channel[j].token = t})

\* C16: once a connection is closed, no park record and no deadline entry
\* carries its token, and no step sends a wake for it: a push to a key it was
\* parked on pops nothing on its behalf.
C16_CloseRemovesParkRecords ==
    [][\A t \in Tokens :
           Closed(t) =>
               /\ ~HasParkRecord(t)
               /\ blocked_clients_timeout[t] = NoTimeout
               /\ WakesFor(t)' <= WakesFor(t)]_vars

-----------------------------------------------------------------------------
(* Properties of expiry, checked on runs in which the clock advances.      *)

ExpiryFrames ==
    { << <<"SET", "a", "v", "PX", "1">> >>,
      << <<"GET", "a">> >>,
      << <<"EXISTS", "a">> >> }

SpecExpiry == InitWith(RunCfg(ExpiryFrames, MaxTimedCmds, MaxTime)) /\ [][Next]_vars

\* the milliseconds given to SET key value PX have elapsed since the SET:
\* the expiry of the value is the time of the SET plus those milliseconds
Elapsed(key) ==
    /\ is_string(storage[key])
    /\ storage[key].expiry # NoExpiry
    /\ now >= storage[key].expiry

\* C17: a GET of a key set with PX n, read when n milliseconds have elapsed
\* since the SET, replies nil and leaves the key absent, and an EXISTS of an
\* absent key replies 0.
C17_ExpiredReadsAsAbsent ==
    [][\A p \in Tokens :
           /\ (Elapsed("a") /\ ReadsOne(p, <<"GET", "a">>)) =>
                  /\ Last(g_log'[p]).g_cmd = Len(g_recv'[p])
                  /\ Last(g_log'[p]).bytes = "$-1\r\n"
                  /\ storage'["a"] = NoUnit
           /\ (storage["a"] = NoUnit /\ ReadsOne(p, <<"EXISTS", "a">>)) =>
                  /\ Last(g_log'[p]).g_cmd = Len(g_recv'[p])
                  /\ Last(g_log'[p]).bytes = ":0\r\n"]_vars

\* C31: a stored value with expiry e is expired, by Unit::is_expired, at
\* every time now >= e, the time e itself included, and live at every
\* time now < e.
C31_ExpiredFromItsExpiryOn ==
    \A key \in Keys :
        (storage[key] # NoUnit /\ storage[key].expiry # NoExpiry) =>
            (is_expired(storage[key], now) <=> now >= storage[key].expiry)

-----------------------------------------------------------------------------
(* Properties of INCR, checked on runs over SET and INCR.                  *)

IncrFrames ==
    { << <<"SET", "a", "x">> >>,
      << <<"SET", "a", to_string(I64Max - 1)>> >>,
      << <<"SET", "a", to_string(I64Max)>> >>,
      << <<"INCR", "a">> >> }

SpecIncr == InitWith(RunCfg(IncrFrames, MaxPushCmds, 0)) /\ [][Next]_vars

\* the step enqueues these bytes for connection p as the reply to the command
\* it has just read
RepliesNow(p, bytes) ==
    /\ Len(g_log'[p]) = Len(g_log[p]) + 1
    /\ Last(g_log'[p]).g_cmd = Len(g_recv'[p])
    /\ Last(g_log'[p]).bytes = bytes

NotAnIntegerError == "-ERR value is not an integer or out of range\r\n"

\* C18: INCR of an absent key stores 1 and replies 1; INCR of a key holding
\* the decimal text of n below the largest integer stores and replies n + 1;
\* INCR of a key holding a non-integer string or the largest integer replies
\* the error and leaves the stored value as it was.
C18_IncrAddsOneOrFails ==
    [][\A p \in Tokens :
           ReadsOne(p, <<"INCR", "a">>) =>
               /\ storage["a"] = NoUnit =>
                      /\ storage'["a"] = new_string("1", NoExpiry)
                      /\ RepliesNow(p, ":1\r\n")
               /\ \A n \in 0 .. I64Max - 1 :
                      storage["a"] = new_string(to_string(n), NoExpiry) =>
                          /\ storage'["a"] = new_string(to_string(n + 1), NoExpiry)
                          /\ RepliesNow(p, ":" \o to_string(n + 1) \o CRLF)
               /\ storage["a"] \in {new_string("x", NoExpiry),
                                    new_string(to_string(I64Max), NoExpiry)} =>
                      /\ storage' = storage
                      /\ RepliesNow(p, NotAnIntegerError)]_vars

\* C18 (witness): an INCR has brought the key to the largest integer and a
\* further INCR has been answered with the error, the value being unchanged
C18_Witness ==
    /\ storage["a"] = new_string(to_string(I64Max), NoExpiry)
    /\ \E p, q \in Tokens :
           /\ \E i \in 1 .. Len(g_recv[p]) :
                  /\ g_recv[p][i].args = <<"INCR", "a">>
                  /\ Answered(p, i, ":" \o to_string(I64Max) \o CRLF)
           /\ g_log[q] # <<>>
           /\ Last(g_log[q]).bytes = NotAnIntegerError
           /\ g_recv[q][Last(g_log[q]).g_cmd].args = <<"INCR", "a">>

-----------------------------------------------------------------------------
(* Properties of commands applied to a value of another kind.              *)

KindFrames ==
    { << <<"SET", "a", "x">> >>,
      << <<"RPUSH", "a", "v">> >>,
      << <<"LPUSH", "a", "v">> >>,
      << <<"ZADD", "a", "1", "m">> >> }

SpecKind == InitWith(RunCfg(KindFrames, MaxPushCmds, 0)) /\ [][Next]_vars

WrongType == "-WRONGTYPE Operation against a key holding the wrong kind of value\r\n"

\* the command line is applied to a value of a kind it is not made for
KindMismatch(args, u) ==
    \/ args[1] \in {"RPUSH", "LPUSH"} /\ (is_zset(u) \/ is_string(u))
    \/ args[1] = "ZADD" /\ (is_string(u) \/ is_list(u))

\* C19: a push applied to a key holding a sorted set or a string, and a ZADD
\* applied to a key holding a string or a list, is answered with the
\* WRONGTYPE error, leaves the keyspace as it was and does not stop the
\* reactor.
C19_WrongKindRejected ==
    [][\A p \in Tokens : \A args \in {f[1] : f \in KindFrames} :
           (ReadsOne(p, args) /\ KindMismatch(args, storage[args[2]])) =>
               /\ ~panicked'
               /\ storage' = storage
               /\ RepliesNow(p, WrongType)]_vars

-----------------------------------------------------------------------------
(* Properties of the lists in the keyspace, checked on runs over every pop. *)

PopFrames ==
    { << <<"RPUSH", "k", "v">> >>,
      << <<"LPOP", "k">> >>,
      << <<"LPOP", "k", "2">> >>,
      << <<"LPOP", "k", "-1">> >>,
      << <<"BLPOP", "k", "0">> >>,
      << <<"BRPOP", "k", "0">> >>,
      << <<"EXISTS", "k">> >>,
      << <<"TYPE", "k">> >> }

SpecPop == InitWith(RunCfg(PopFrames, MaxPushCmds, 0)) /\ [][Next]_vars

NoEmptyList == \A key \in Keys : is_list(storage[key]) => storage[key].l # <<>>

\* C20: no key ever maps to an empty list, so a key whose list has lost its
\* last element to a pop is absent: EXISTS of it replies 0 and TYPE replies
\* none.
C20_NoEmptyListStored ==
    [][/\ NoEmptyList
       /\ NoEmptyList'
       /\ \A p \in Tokens :
              ListLen("k") = 0 =>
                  /\ ReadsOne(p, <<"EXISTS", "k">>) => RepliesNow(p, ":0\r\n")
                  /\ ReadsOne(p, <<"TYPE", "k">>) => RepliesNow(p, "+none\r\n")]_vars

\* C20 (witness): the element pushed to k has been popped to wake a parked
\* connection, k is absent, and an EXISTS k read after that was answered 0
C20_Witness ==
    /\ storage["k"] = NoUnit
    /\ \E b, p \in Tokens :
           /\ \E j \in 1 .. Len(g_log[b]) :
                  g_log[b][j].response = Array(<<BulkString("k"), BulkString("v")>>)
           /\ g_log[p] # <<>>
           /\ g_recv[p][Last(g_log[p]).g_cmd].args = <<"EXISTS", "k">>
           /\ Last(g_log[p]).bytes = ":0\r\n"

-----------------------------------------------------------------------------
(* Properties of streams, checked on runs over XADD under both settings of *)
(* the build's overflow checks.                                            *)

XaddArgs(id) == <<"XADD", "k", id, "f", "v">>

\* the id arguments of the runs: explicit, auto-sequenced and clock ids
XaddIds == {"0-0", "0-1", "1-1", "1-" \o to_string(U64Max), "2-0", "0-*", "1-*", "*"}

StreamFrames == { <<XaddArgs(id)>> : id \in XaddIds }

SpecStream ==
    /\ \E checks \in BOOLEAN :
           InitWith([RunCfg(StreamFrames, MaxPushCmds, MaxTime)
                        EXCEPT !.overflow_checks = checks])
    /\ [][Next]_vars

\* the stream stored under key, empty when the key holds no stream
StreamOf(key) == IF is_stream(storage[key]) THEN storage[key].x ELSE <<>>

Increasing(stream) ==
    \A i, j \in 1 .. Len(stream) : i < j => IdLess(stream[i].id, stream[j].id)

\* the ids an entry of the runs can carry
EntryIds ==
    {StreamId(t, q) : t \in 0 .. Max(U64Max, BootMillis + MaxTime), q \in 0 .. U64Max}

\* the step appends one entry with this id to the stream under k and replies
\* the id to connection p
Appends(p, id) ==
    /\ StreamOf("k")' = Append(StreamOf("k"), StreamMember(id, << <<"f", "v">> >>))
    /\ RepliesNow(p, to_resp(BulkString(IdText(id))))

\* the step leaves the keyspace as it was and replies the error to p
FailsWith(p, err) ==
    /\ storage' = storage
    /\ RepliesNow(p, "-ERR " \o err \o CRLF)

\* C21: the ids of a stream are strictly increasing in stored order; every
\* XADD either appends one entry whose id is greater than the last id and
\* replies that id, or fails with one of the two errors and leaves the stream
\* unchanged; an explicit id greater than the last id is appended as given,
\* and one that is not is refused, with the error about 0-0 when it is 0-0
\* and the error about the top item otherwise.
C21_StreamIdsIncrease ==
    [][/\ Increasing(StreamOf("k"))'
       /\ \A p \in Tokens, id \in XaddIds :
              ReadsOne(p, XaddArgs(id)) =>
                  /\ ~panicked'
                  /\ \/ \E new \in EntryIds :
                            IdLess(TopId(StreamOf("k")), new) /\ Appends(p, new)
                     \/ FailsWith(p, GreaterThanZero)
                     \/ FailsWith(p, GreaterThanTop)
                  /\ \A new \in EntryIds :
                         id = IdText(new) =>
                             IF IdLess(TopId(StreamOf("k")), new) THEN Appends(p, new)
                             ELSE IF new = EMPTY_STREAM_ID
                                  THEN FailsWith(p, GreaterThanZero)
                                  ELSE FailsWith(p, GreaterThanTop)]_vars

-----------------------------------------------------------------------------
(* Properties of XRANGE, checked on runs over XADD and XRANGE.             *)

\* the start and end arguments of the XRANGE commands of the runs
RangeArgs == { <<"-", "+">>, <<"1", "1">>, <<"-", "1">>, <<"1", "+">>, <<"1-1", "2">>,
               <<"0-1", "1-0">> }

RangeFrames ==
    { <<XaddArgs(id)>> : id \in {"0-1", "1-1", "2-0"} }
        \cup { << <<"XRANGE", "k", r[1], r[2]>> >> : r \in RangeArgs }

SpecRange == InitWith(RunCfg(RangeFrames, MaxPushCmds, 0)) /\ [][Next]_vars

\* the id a written-out ms-seq argument names
IdOfText(text) == CHOOSE id \in EntryIds : IdText(id) = text

\* the lowest id a start argument admits
LowestOf(text) ==
    IF text = "-" THEN StreamId(0, 0)
    ELSE IF text \in U64Texts THEN StreamId(ParseU64Or0(text), 0)
    ELSE IdOfText(text)

\* the highest id an end argument admits
HighestOf(text) ==
    IF text = "+" THEN StreamId(U64Max, U64Max)
    ELSE IF text \in U64Texts THEN StreamId(ParseU64Or0(text), U64Max)
    ELSE IdOfText(text)

\* the entries of the stream under key whose id lies in [low, high]
InRange(key, low, high) ==
    LET Inside(member) == IdLeq(low, member.id) /\ IdLeq(member.id, high)
    IN  SelectSeq(StreamOf(key), Inside)

\* C22: XRANGE k start end replies, in id order, exactly the entries of the
\* stream whose id lies in the inclusive range from start to end, where - is
\* the lowest id, + the highest, a bare ms as start is ms-0 and a bare ms as
\* end is ms with the highest sequence number.
C22_RangeIsInclusive ==
    [][\A p \in Tokens, r \in RangeArgs :
           ReadsOne(p, <<"XRANGE", "k", r[1], r[2]>>) =>
               /\ Increasing(InRange("k", LowestOf(r[1]), HighestOf(r[2])))
               /\ RepliesNow(p, to_resp(Array(EntryReplies(
                      InRange("k", LowestOf(r[1]), HighestOf(r[2]))))))]_vars

-----------------------------------------------------------------------------
(* Properties of ZRANGE, checked on runs over ZADD and ZRANGE.             *)

\* the start and end arguments of the ZRANGE commands of the runs
ZRangeArgs == { <<0, -1>>, <<-2, -1>>, <<5, 10>>, <<-5, 0>>, <<2, 1>>, <<1, 5>> }

ZRangeLine(r) == <<"ZRANGE", "k", to_string(r[1]), to_string(r[2])>>

ZsetFrames ==
    { << <<"ZADD", "k", "1", "a">> >>, << <<"ZADD", "k", "2", "a">> >>,
      << <<"ZADD", "k", "3", "c">>, <<"ZADD", "k", "2", "b">> >> }
        \cup { <<ZRangeLine(r)>> : r \in ZRangeArgs }

SpecZset == InitWith(RunCfg(ZsetFrames, MaxTimedCmds, 0)) /\ [][Next]_vars

\* the sorted set stored under key, empty when the key holds none
ZSetOf(key) == IF is_zset(storage[key]) THEN storage[key].z ELSE {}

\* the member of z that has exactly i members of z before it
RankedAt(z, i) == CHOOSE m \in z : Cardinality({n \in z : MemberLess(n, m)}) = i

\* an index counted from the end when it is negative
Position(len, i) == IF i < 0 THEN len + i ELSE i

\* the bytes of the array of the members of z at positions from .. to
MembersReply(z, from, to) ==
    to_resp(Array([i \in 1 .. to - from + 1 |->
                      SimpleString(RankedAt(z, from + i - 1).member)]))

-----------------------------------------------------------------------------
(* Properties of park records, wakes and parked connections.               *)

\* some key holds a park record of command i of connection t
RecordOf(t, i) ==
    \E key \in Keys : \E r \in 1 .. Len(blocked_clients[key]) :
        blocked_clients[key][r].token = t /\ blocked_clients[key][r].g_cmd = i

\* C26: once a blocking pop of a connection has been answered, no key holds a
\* park record of that command any more and no wake for it is in flight: a
\* push to another key of the command finds no record to pop for.
C26_WakeRemovesRecordsOnEveryKey ==
    \A t \in Tokens : \A i \in 1 .. Len(g_recv[t]) :
        RepliesTo(t, i) # {} =>
            /\ ~RecordOf(t, i)
            /\ ~InFlight("UnblockClient", t, i)

\* runs in which up to three connections park on k and push to it
WakeFrames ==
    { << <<"BLPOP", "k", "0">> >>,
      << <<"RPUSH", "k", "v">> >>,
      << <<"RPUSH", "k", "v", "v">> >> }

SpecWake ==
    /\ InitWith([RunCfg(WakeFrames, MaxPushCmds, 0) EXCEPT !.max_clients = MaxTokens])
    /\ [][Next]_vars

\* every park record on key is of a connected client's unanswered command
AllLive(key) ==
    \A r \in 1 .. Len(blocked_clients[key]) :
        LET bc == blocked_clients[key][r] IN
        clients[bc.token] # NoClient /\ RepliesTo(bc.token, bc.g_cmd) = {}

\* this step sends exactly one wake to each of the first n records of all
WakesFirst(all, n) ==
    /\ Len(channel') = Len(channel) + n
    /\ SubSeq(channel', 1, Len(channel)) = channel
    /\ \A j \in 1 .. n :
           LET m == channel'[Len(channel) + j] IN
           /\ m.type = "UnblockClient"
           /\ m.token = all[j].token
           /\ m.g_cmd = all[j].g_cmd

\* C27: when m elements are pushed to an empty key on which n live
\* connections are parked, the step wakes exactly the first min(m, n) of
\* them in park order and removes their records, and the records of the
\* other n - min(m, n) stay on the key in their order.
C27_PushWakesFirstInParkOrder ==
    [][\A p \in Tokens : \A key \in Keys : \A m \in 1 .. 2 :
           LET all == blocked_clients[key]
               woken == IF m < Len(all) THEN m ELSE Len(all)
           IN (/\ ReadsOne(p, <<"RPUSH", key>> \o [j \in 1 .. m |-> "v"])
               /\ ListLen(key) = 0
               /\ AllLive(key))
              => /\ WakesFirst(all, woken)
                 /\ blocked_clients'[key] = SubSeq(all, woken + 1, Len(all))]_vars

\* command i of connection t is a blocking pop that was run, found no data
\* and has not been answered: the connection is parked by it
AwaitsWake(t, i) ==
    /\ clients[t] # NoClient
    /\ g_recv[t][i].args[1] \in {"BLPOP", "BRPOP"}
    /\ ~g_recv[t][i].multi
    /\ parse(g_recv[t][i].args).okay
    /\ RepliesTo(t, i) = {}

\* no command of connection t after its i-th has been taken up
NothingLater(t, i) == Len(g_recv[t]) = i

\* the reactor has handled the block request of command i of connection t
\* and the connection is in its parked state
StaysParked(t, i) == ~InFlight("BlockClient", t, i) => is_blocked(clients[t])

\* C28: while a connection is parked by a blocking command that has not been
\* answered by a wake or by its timeout, none of its later commands is taken
\* up, the ones framed in the same read included, and once the reactor has
\* parked it the connection stays in the parked state: draining its write
\* buffer does not put it back to reading.
C28_ParkedStaysParked ==
    \A t \in Tokens : \A i \in 1 .. Len(g_recv[t]) :
        AwaitsWake(t, i) => NothingLater(t, i) /\ StaysParked(t, i)

\* command i of connection t is a blocking pop run outside a transaction
BlockingPop(t, i) ==
    /\ g_recv[t][i].args[1] \in {"BLPOP", "BRPOP"}
    /\ ~g_recv[t][i].multi

\* the reactor is about to handle a wake-with-reply addressed to connection t
WakePending(t) ==
    /\ phase = "messages"
    /\ \E j \in 1 .. Len(channel) :
           channel[j].type = "UnblockClient" /\ channel[j].token = t

\* the reactor is about to look at the deadlines and the one of t has passed
DeadlineDue(t) ==
    /\ phase = "timeouts"
    /\ blocked_clients_timeout[t] # NoTimeout
    /\ blocked_clients_timeout[t] <= now

\* C29: a blocking pop that has parked its connection never has more than
\* one reply; its reply is enqueued only by the step that handles a
\* wake-with-reply for the connection or by the step that finds its deadline
\* passed, and it is the null reply or an array: nothing is written for it
\* before; and the step that handles the wake sent for it, or that finds the
\* deadline of its connection passed, does answer it.
C29_ParkedCommandAnsweredOnce ==
    [][\A t \in Tokens : \A i \in 1 .. Len(g_recv[t]) :
           BlockingPop(t, i) =>
               /\ Cardinality(RepliesTo(t, i)') <= 1
               /\ (RepliesTo(t, i) = {} /\ RepliesTo(t, i)' # {}) =>
                      /\ WakePending(t) \/ DeadlineDue(t)
                      /\ \A j \in RepliesTo(t, i)' :
                             \/ g_log'[t][j].response = nil
                             \/ g_log'[t][j].response.t = "Array"
               /\ (/\ RepliesTo(t, i) = {}
                   /\ clients[t] # NoClient
                   /\ \/ phase = "messages" /\ InFlight("UnblockClient", t, i)
                      \/ DeadlineDue(t) /\ clients[t].g_cmd = i)
                  => RepliesTo(t, i)' # {}]_vars

-----------------------------------------------------------------------------
(* Properties of blocking stream reads, checked on runs over XREAD and XADD.*)

XreadFrames ==
    { << <<"XREAD", "BLOCK", "0", "STREAMS", "k", "0-0">> >>,
      << <<"XREAD", "BLOCK", "0", "STREAMS", "k", "1-1">> >>,
      << <<"XREAD", "STREAMS", "k", "0-0">> >>,
      << XaddArgs("0-1") >>,
      << XaddArgs("1-1") >> }

SpecXread == InitWith(RunCfg(XreadFrames, MaxPushCmds, 0)) /\ [][Next]_vars

\* the park records of XREAD BLOCK on key that a stream whose last id is top
\* satisfies, in park order
Satisfied(key, top) ==
    SelectSeq(blocked_clients[key], LAMBDA bc : ~bc.by_list /\ IdLess(bc.last_id, top))

\* the wake-with-reply for record bc: the entries of the stream after its id
StreamWake(bc, key, stream) ==
    Array(<< Array(<<BulkString(key), Array(EntryReplies(After(stream, bc.last_id)))>>) >>)

\* C30: the step in which an XADD appends an entry to a stream sends, in park
\* order, one wake-with-reply to every connection parked by XREAD BLOCK on
\* the stream with a last-seen id smaller than the new id, carrying the
\* entries after that id, and leaves none of their records parked on the key.
C30_XaddWakesBlockedReaders ==
    [][\A p \in Tokens : \A key \in Keys :
           LET stream == StreamOf(key)'
               woken == Satisfied(key, TopId(stream))
           IN (/\ \E id \in {"0-1", "1-1"} : ReadsOne(p, <<"XADD", key, id, "f", "v">>)
               /\ Len(stream) = Len(StreamOf(key)) + 1)
              => /\ Len(channel') = Len(channel) + Len(woken)
                 /\ \A j \in 1 .. Len(woken) :
                        LET m == channel'[Len(channel) + j] IN
                        /\ m.type = "UnblockClient"
                        /\ m.token = woken[j].token
                        /\ m.response = StreamWake(woken[j], key, stream)
                 /\ \A r \in 1 .. Len(blocked_clients'[key]) :
                        \/ blocked_clients'[key][r].by_list
                        \/ ~IdLess(blocked_clients'[key][r].last_id, TopId(stream))]_vars

-----------------------------------------------------------------------------
(* Properties of lazy expiry, checked on runs over a key that expires.     *)

LazyFrames ==
    { << <<"SET", "a", "v", "PX", "1">> >>,
      << <<"EXISTS", "a">> >>,
      << <<"TYPE", "a">> >>,
      << <<"INCR", "a">> >>,
      << <<"LLEN", "a">> >>,
      << <<"RPUSH", "a", "v">> >> }

SpecLazy == InitWith(RunCfg(LazyFrames, MaxPushCmds, MaxTime)) /\ [][Next]_vars

\* the expiry of the value under key has passed
Passed(key) ==
    /\ storage[key] # NoUnit
    /\ storage[key].expiry # NoExpiry
    /\ now > storage[key].expiry

\* C32: a command that finds a key whose expiry has passed does what it does
\* on a missing key, with no GET needed before: EXISTS replies 0, TYPE
\* replies none, LLEN replies 0, INCR stores and replies 1, and RPUSH stores
\* the one-element list and replies 1.
C32_ExpiredKeyIsAbsent ==
    [][\A p \in Tokens :
           Passed("a") =>
               /\ ReadsOne(p, <<"EXISTS", "a">>) => RepliesNow(p, ":0\r\n")
               /\ ReadsOne(p, <<"TYPE", "a">>) => RepliesNow(p, "+none\r\n")
               /\ ReadsOne(p, <<"LLEN", "a">>) => RepliesNow(p, ":0\r\n")
               /\ ReadsOne(p, <<"INCR", "a">>) =>
                      /\ RepliesNow(p, ":1\r\n")
                      /\ storage'["a"] = new_string("1", NoExpiry)
               /\ ReadsOne(p, <<"RPUSH", "a", "v">>) =>
                      /\ RepliesNow(p, ":1\r\n")
                      /\ storage'["a"] = new_list(<<"v">>, NoExpiry)]_vars

-----------------------------------------------------------------------------
(* Properties of GET on values that are not strings.                       *)

GetFrames ==
    { << <<"RPUSH", "a", "v">> >>,
      << <<"ZADD", "a", "1", "m">> >>,
      << <<"XADD", "a", "0-1", "f", "v">> >>,
      << <<"GET", "a">> >> }

SpecGet == InitWith(RunCfg(GetFrames, MaxPushCmds, 0)) /\ [][Next]_vars

\* C33: a GET of a key that holds a list, a sorted set or a stream that has
\* not expired replies nil and leaves the keyspace, the key and its value
\* included, as it was.
C33_GetLeavesOtherKinds ==
    [][\A p \in Tokens :
           LET u == storage["a"] IN
           (/\ ReadsOne(p, <<"GET", "a">>)
            /\ is_list(u) \/ is_zset(u) \/ is_stream(u)
            /\ ~is_expired(u, now))
           => /\ RepliesNow(p, "$-1\r\n")
              /\ storage' = storage]_vars

-----------------------------------------------------------------------------
(* Properties of the order of pushed values.                               *)

OrderFrames ==
    { << <<"RPUSH", "k", "v", "w">> >>,
      << <<"LPUSH", "k", "v", "w">> >>,
      << <<"LPUSH", "k", "x">> >> }

SpecOrder == InitWith(RunCfg(OrderFrames, MaxPushCmds, 0)) /\ [][Next]_vars

\* the list under key; no element when the key is absent
ListOf(key) == IF is_list(storage[key]) THEN storage[key].l ELSE <<>>

\* C34: RPUSH key v w appends v, w in that order at the tail, and LPUSH key
\* v w leaves w, v as the first two elements, the last value at the head,
\* when the key held a list and when it was absent.
C34_PushOrder ==
    [][\A p \in Tokens :
           /\ ReadsOne(p, <<"RPUSH", "k", "v", "w">>) =>
                  ListOf("k")' = ListOf("k") \o <<"v", "w">>
           /\ ReadsOne(p, <<"LPUSH", "k", "v", "w">>) =>
                  ListOf("k")' = <<"w", "v">> \o ListOf("k")
           /\ ReadsOne(p, <<"LPUSH", "k", "x">>) =>
                  ListOf("k")' = <<"x">> \o ListOf("k")]_vars

-----------------------------------------------------------------------------
(* Properties of LPOP with and without a count.                            *)

LpopFrames ==
    { << <<"RPUSH", "k", "v", "w">> >>,
      << <<"LPOP", "k">> >>,
      << <<"LPOP", "k", "0">> >>,
      << <<"LPOP", "k", "1">> >>,
      << <<"LPOP", "k", "2">> >> }

SpecLpop == InitWith(RunCfg(LpopFrames, MaxPushCmds, 0)) /\ [][Next]_vars

\* the step enqueues for connection p, as the reply to the command it has
\* just read, an array that carries these elements in this order
RepliesArrayNow(p, items) ==
    /\ Len(g_log'[p]) = Len(g_log[p]) + 1
    /\ Last(g_log'[p]).g_cmd = Len(g_recv'[p])
    /\ Last(g_log'[p]).response.t = "Array"
    /\ Len(Last(g_log'[p]).response.a) = Len(items)
    /\ \A i \in 1 .. Len(items) : Last(g_log'[p]).response.a[i].s = items[i]

\* C35: LPOP key without a count replies the head element as a bulk string
\* and removes it, or replies nil when the key is absent; LPOP key count on a
\* list replies an array of its first min(count, length) elements in list
\* order, also for the counts 1 and 0, and removes exactly those elements.
C35_LpopRepliesHeadOrArray ==
    [][\A p \in Tokens :
           LET list == ListOf("k") IN
           /\ ReadsOne(p, <<"LPOP", "k">>) =>
                  IF list = <<>>
                  THEN RepliesNow(p, "$-1\r\n") /\ storage' = storage
                  ELSE /\ RepliesNow(p, to_resp(BulkString(Head(list))))
                       /\ ListOf("k")' = Tail(list)
           /\ \A count \in 0 .. 2 :
                  (ReadsOne(p, <<"LPOP", "k", to_string(count)>>) /\ list # <<>>) =>
                      LET n == IF count < Len(list) THEN count ELSE Len(list) IN
                      /\ RepliesArrayNow(p, SubSeq(list, 1, n))
                      /\ ListOf("k")' = SubSeq(list, n + 1, Len(list))]_vars

-----------------------------------------------------------------------------
(* Properties of ZADD, ZREM and ZCARD.                                     *)

\* the scores and members of the ZADD and ZREM commands of the runs
ZScores == {"1", "2", "nan"}
ZMembers == {"a", "b"}

ZremFrames ==
    { << <<"ZADD", "k", s, m>> >> : s \in ZScores, m \in ZMembers }
        \cup { << <<"ZREM", "k", m>> >> : m \in ZMembers }
        \cup { << <<"ZCARD", "k">> >> }

SpecZrem == InitWith(RunCfg(ZremFrames, MaxTimedCmds, 0)) /\ [][Next]_vars

\* the entries of member in the sorted set z
EntriesOf(z, member) == {x \in z : x.member = member}

\* the members present in the sorted set z
MembersOf(z) == {x.member : x \in z}

\* C36: ZADD replies 1 when the member was not in the set and 0 when it was;
\* every member appears at most once in the set; a member that is present
\* carries the score of its latest ZADD (a ZADD leaves no entry of the member
\* but the one with its score, a ZREM leaves none, and neither of them nor any
\* other step touches the entries of the other members); and ZCARD replies
\* the number of distinct members present.
C36_MembersUniqueWithLatestScore ==
    /\ [](\A m \in ZMembers : Cardinality(EntriesOf(ZSetOf("k"), m)) <= 1)
    /\ [][\A p \in Tokens :
              LET z == ZSetOf("k") IN
              /\ \A s \in ZScores, m \in ZMembers :
                     ReadsOne(p, <<"ZADD", "k", s, m>>) =>
                         /\ RepliesNow(p, IF m \in MembersOf(z) THEN ":0\r\n" ELSE ":1\r\n")
                         /\ EntriesOf(ZSetOf("k")', m) \subseteq {ZSetMember(ParseF64(s), m)}
                         /\ \A n \in ZMembers \ {m} :
                                EntriesOf(ZSetOf("k")', n) = EntriesOf(z, n)
              /\ \A m \in ZMembers :
                     ReadsOne(p, <<"ZREM", "k", m>>) =>
                         /\ EntriesOf(ZSetOf("k")', m) = {}
                         /\ \A n \in ZMembers \ {m} :
                                EntriesOf(ZSetOf("k")', n) = EntriesOf(z, n)
              /\ ReadsOne(p, <<"ZCARD", "k">>) =>
                     /\ RepliesNow(p, to_resp(Integer(Cardinality(MembersOf(z)))))
                     /\ ZSetOf("k")' = z
              /\ g_recv' = g_recv => ZSetOf("k")' = z]_vars

\* C36 (witness): a has been added with score 1 and again with score 2, the
\* second ZADD was answered 0, a ZREM of a was answered 1 and left the set
\* empty, and a ZCARD read after that was answered 0
C36_Witness ==
    /\ is_zset(storage["k"]) /\ ZSetOf("k") = {}
    /\ \E p, q, r \in Tokens :
           /\ \E i \in 1 .. Len(g_recv[p]) :
                  /\ g_recv[p][i].args = <<"ZADD", "k", "2", "a">>
                  /\ Answered(p, i, ":0\r\n")
           /\ \E i \in 1 .. Len(g_recv[q]) :
                  /\ g_recv[q][i].args = <<"ZREM", "k", "a">>
                  /\ Answered(q, i, ":1\r\n")
           /\ g_log[r] # <<>>
           /\ g_recv[r][Last(g_log[r]).g_cmd].args = <<"ZCARD", "k">>
           /\ Last(g_log[r]).bytes = ":0\r\n"

-----------------------------------------------------------------------------
(* Properties of the write path, on runs whose writes may be partial.      *)

WriteFrames ==
    { << <<"PING">>, <<"PING">>, <<"BLPOP", "k", "0">> >>,
      << <<"PING">>, <<"PING">> >>,
      << <<"RPUSH", "k", "v">> >> }

SpecWrite ==
    InitWith([RunCfg(WriteFrames, MaxTimedCmds, 0) EXCEPT !.partial = TRUE])
        /\ [][Next]_vars

\* the replies of connection t that are in its write buffer and not yet sent
Unsent(t) ==
    SubSeq(clients[t].write_buffer, clients[t].write_pos + 1,
           Len(clients[t].write_buffer))

\* the number of replies of connection t handed to the socket so far
Sent(t) == Len(g_log[t]) - Len(Unsent(t))

\* the replies ever enqueued for connection t from the i-th on
Enqueued(t, i) ==
    [j \in 1 .. Len(g_log[t]) - i + 1 |->
        [bytes |-> g_log[t][i + j - 1].bytes, g_cmd |-> g_log[t][i + j - 1].g_cmd]]

\* C37: a connection with unsent bytes is registered for writable; the cursor
\* never exceeds the buffer length and a buffer written to its end is cleared;
\* the unsent part of the buffer is always exactly the replies enqueued and
\* not yet sent, in order, and the number of replies sent never decreases (no
\* reply is skipped or sent twice); a write that reaches the end of the buffer
\* returns the connection to Reading and re-registers it for readable.
C37_WriteBufferDrainsInOrder ==
    /\ [](\A t \in Tokens :
              clients[t] # NoClient =>
                  /\ has_pending_writes(clients[t]) => clients[t].interest = "WRITABLE"
                  /\ clients[t].write_pos <= Len(clients[t].write_buffer)
                  /\ clients[t].write_pos = Len(clients[t].write_buffer) =>
                         clients[t].write_buffer = <<>>
                  /\ Unsent(t) = Enqueued(t, Sent(t) + 1))
    /\ [][\A t \in Tokens :
              (clients[t] # NoClient /\ clients'[t] # NoClient) =>
                  /\ Sent(t)' >= Sent(t)
                  /\ (Sent(t)' > Sent(t) /\ Unsent(t)' = <<>>) =>
                         /\ clients'[t].state = "Reading"
                         /\ clients'[t].interest = "READABLE"]_vars

\* C37 (witness): a reply has been enqueued for a connection while one of its
\* replies was sent and another was still pending, and all three have since
\* been written
C37_Witness ==
    \E t \in Tokens :
        /\ Len(g_log[t]) = 3
        /\ g_log[t][3].response = Array(<<BulkString("k"), BulkString("v")>>)
        /\ clients[t].write_buffer = <<>>
        /\ clients[t].state = "Reading"
        /\ clients[t].interest = "READABLE"

\* C37 (witness of the pending write): two replies are in the buffer, the
\* first has been sent and the connection is parked
PartialPending ==
    \E t \in Tokens :
        /\ clients[t] # NoClient
        /\ clients[t].write_pos = 1
        /\ Len(clients[t].write_buffer) = 3

-----------------------------------------------------------------------------
(* Properties of I/O errors and stale events.                              *)

ErrorFrames ==
    { << <<"BLPOP", "k", "0">> >>,
      << <<"RPUSH", "k", "v">> >>,
      << <<"PING">> >> }

\* the same program with connections that may close, I/O errors and stale
\* events
NextError ==
    \/ NextClose
    \/ HandleClientIoError
    \/ HandleStaleEvent
    \/ ProcessMessagesIoError

SpecError == InitWith(RunCfg(ErrorFrames, MaxPushCmds, 0)) /\ [][NextError]_vars

\* this step removes connection t from the map
Closes(t) == clients[t] # NoClient /\ clients'[t] = NoClient

\* C38: no step makes run return, and a step that closes a connection (on an
\* I/O error, a closed peer or a stale event) leaves every other connection
\* as it was.
C38_ErrorClosesOnlyThatConnection ==
    [][/\ phase' # "returned"
       /\ \A t \in Tokens :
              Closes(t) => \A u \in Tokens \ {t} : clients'[u] = clients[u]]_vars

-----------------------------------------------------------------------------
(* Properties of the elements of lists: none is lost on the wake path.     *)

\* the elements ever pushed, as <<connection, command, place in the command>>
PushedElements ==
    {e \in Tokens \X (1 .. MaxCmds) \X (1 .. MaxCmds) :
        /\ e[2] <= Len(g_recv[e[1]])
        /\ g_recv[e[1]][e[2]].args[1] \in {"RPUSH", "LPUSH"}
        /\ e[3] <= Len(g_recv[e[1]][e[2]].args) - 2}

\* the elements stored in lists, as <<key, position>>
StoredElements == {e \in Keys \X (1 .. MaxCmds * MaxCmds) : e[2] <= ListLen(e[1])}

\* the replies enqueued so far that carry an element popped for a blocking
\* pop, at once or by a wake
RepliedElements ==
    {c \in Tokens \X (1 .. MaxCmds) :
        /\ c[2] <= Len(g_log[c[1]])
        /\ g_log[c[1]][c[2]].response.t \in {"Array", "BulkString"}
        /\ g_recv[c[1]][g_log[c[1]][c[2]].g_cmd].args[1] \in {"BLPOP", "BRPOP"}}

\* the wakes-with-reply that are in the channel, each carrying one element
WakesInFlight ==
    {j \in 1 .. Len(channel) :
        channel[j].type = "UnblockClient" /\ channel[j].response.t = "Array"}

\* C39: the elements ever pushed are the elements stored in lists, the
\* elements carried by wakes that are still in the channel and the elements
\* returned in replies enqueued for a connection.
C39_NoElementLost ==
    Cardinality(PushedElements) =
        Cardinality(StoredElements) + Cardinality(WakesInFlight)
            + Cardinality(RepliedElements)

-----------------------------------------------------------------------------
(* Properties of deadlines: the poll timeout and the answer to a parked    *)
(* connection.                                                             *)

\* EventLoop::calculate_poll_timeout, NoTimeout standing for None
calculate_poll_timeout(w) ==
    With({w.blocked_clients_timeout[t] : t \in Tokens} \ {NoTimeout}, LAMBDA deadlines :
    IF deadlines = {} THEN NoTimeout
    ELSE With(CHOOSE d \in deadlines : \A e \in deadlines : d <= e, LAMBDA next_timeout :
         IF next_timeout <= w.now THEN 0 ELSE next_timeout - w.now))

\* the clock advances in a poll
Tick == Poll /\ now' > now

\* the writable event of connection t is handled
WriteOf(t) == HandleClientWrite /\ clients'[t] # clients[t]

\* the runs of SpecTimed in which the reactor keeps running: every phase of
\* the loop is eventually left, time passes, and a connection with pending
\* replies gets its writable event
SpecTimedLive ==
    /\ InitWith(RunCfg(TimedFrames, MaxTimedCmds, MaxTime))
    /\ [][Next]_vars
    /\ WF_vars(Poll)
    /\ WF_vars(HandleBlockedClientTimeouts)
    /\ WF_vars(ProcessMessages)
    /\ WF_vars(CleanupClosedClients)
    /\ SF_vars(Tick)
    /\ \A t \in Tokens : SF_vars(WriteOf(t))

\* connection t is parked for its command i with a deadline that the clock
\* of the run reaches
ParkedUntilDeadline(t, i) ==
    /\ clients[t] # NoClient
    /\ clients[t].g_cmd = i
    /\ blocked_clients_timeout[t] # NoTimeout
    /\ blocked_clients_timeout[t] <= MaxTime

\* command i of connection t has a reply and the connection is Reading
AnsweredAndReading(t, i) == RepliesTo(t, i) # {} /\ clients[t].state = "Reading"

\* the poll timeout is not longer than the time left to any deadline
PollTimeoutWithinDeadlines ==
    \A t \in Tokens :
        blocked_clients_timeout[t] # NoTimeout =>
            /\ calculate_poll_timeout(World) # NoTimeout
            /\ calculate_poll_timeout(World) <= Max(blocked_clients_timeout[t] - now, 0)

\* C40: while the reactor keeps running, a connection parked with a deadline
\* is eventually answered and back in Reading, and the poll timeout computed
\* in any state is not longer than the time left to the earliest deadline.
C40_ParkedWithDeadlineIsAnswered ==
    /\ []PollTimeoutWithinDeadlines
    /\ \A t \in Tokens : \A i \in 1 .. MaxTimedCmds :
           ParkedUntilDeadline(t, i) ~> AnsweredAndReading(t, i)

-----------------------------------------------------------------------------
(* Properties of framing, checked on runs that read one connection byte by *)
(* byte.                                                                   *)

\* a frame on the wire: its bytes and the command line it carries
WireFrame(bytes, args, complete) == [bytes |-> bytes, args |-> args, complete |-> complete]

BulkPing ==
    <<"*", "1", "\r", "\n", "$", "4", "\r", "\n", "P", "I", "N", "G", "\r", "\n">>

\* PING with a two-byte message that is itself \r\n
BulkPingCrlf ==
    <<"*", "2", "\r", "\n", "$", "4", "\r", "\n", "P", "I", "N", "G", "\r", "\n",
      "$", "2", "\r", "\n", "\r", "\n", "\r", "\n">>

InlinePing == <<"P", "I", "N", "G", "\r", "\n">>

\* PING as a bulk string outside an array
BarePing == <<"$", "4", "\r", "\n", "P", "I", "N", "G", "\r", "\n">>

\* frames that are complete commands
CommandFrames ==
    { WireFrame(BulkPing, <<"PING">>, TRUE),
      WireFrame(BulkPingCrlf, <<"PING", "\r\n">>, TRUE),
      WireFrame(InlinePing, <<"PING">>, TRUE),
      WireFrame(BarePing, <<"PING">>, TRUE) }

\* bytes that no continuation turns into a frame: an array length that is no
\* number, a bulk string that is not followed by \r\n, an array element of
\* an unsupported type
BrokenFrames ==
    { WireFrame(<<"*", "x", "\r", "\n">>, <<>>, FALSE),
      WireFrame(<<"*", "1", "\r", "\n", "$", "1", "\r", "\n", "a", "b", "\r", "\n">>,
                <<>>, FALSE),
      WireFrame(<<"*", "1", "\r", "\n", "-", "x", "\r", "\n">>, <<>>, FALSE) }

\* the streams a peer sends: up to MaxFrames frames
WireStreams ==
    UNION { [1 .. n -> CommandFrames \cup BrokenFrames] : n \in 1 .. MaxFrames }

RECURSIVE BytesOf(_)
BytesOf(frames) ==
    IF frames = <<>> THEN <<>> ELSE Head(frames).bytes \o BytesOf(Tail(frames))

SpecBytes ==
    /\ InitReactor([RunCfg({}, MaxCmds, 0) EXCEPT !.max_clients = 1])
    /\ \E stream \in WireStreams :
           /\ g_frames = stream
           /\ wire = BytesOf(stream)
    /\ read_buffer = <<>>
    /\ expecting_rdb = TRUE
    /\ g_parsed = <<>>
    /\ [][NextBytes]_vars

\* the number of bytes that have been read from the wire
Arrived == Len(BytesOf(g_frames)) - Len(wire)

\* the number of leading frames of the stream that lie within its first n bytes
Within(n) ==
    Cardinality({k \in 1 .. Len(g_frames) : Len(BytesOf(SubSeq(g_frames, 1, k))) <= n})

\* C24: when the peer sends complete commands and the reads cut the stream
\* anywhere, the command lines returned so far are exactly those of the
\* frames that have arrived in full, and the buffer holds exactly the bytes
\* of the frame that has arrived in part: no byte of it has been consumed.
C24_ParsingIsIncremental ==
    (\A k \in 1 .. Len(g_frames) : g_frames[k].complete) =>
        /\ g_parsed = [k \in 1 .. Within(Arrived) |-> g_frames[k].args]
        /\ read_buffer =
               SubSeq(BytesOf(g_frames),
                      Len(BytesOf(SubSeq(g_frames, 1, Within(Arrived)))) + 1, Arrived)

\* the buffer starts with the bytes of a broken frame
StartsBroken(buffer) ==
    \E f \in BrokenFrames :
        Len(buffer) >= Len(f.bytes) /\ Take(buffer, Len(f.bytes)) = f.bytes

\* C25: a connection whose read buffer starts with bytes that can never
\* become a frame is closed: it is never left open with those bytes in its
\* buffer.
C25_BrokenFrameClosesConnection ==
    StartsBroken(read_buffer) => clients[FirstToken] = NoClient

TypeOK ==
    /\ phase \in {"poll", "timeouts", "messages", "events", "returned"}
    /\ next_token \in FirstToken .. MaxTokens + 1
    /\ \A t \in Tokens : clients[t].state \in {"None", "Reading", "Writing", "Blocked"}

====
